---- MODULE Spec2Model ----
(***************************************************************************)
(* ChordGen: the chord-progression generators.                             *)
(*                                                                         *)
(*   "gen"   src/generator.py            stay histograms + temperature     *)
(*   "ver1"  src/ver1/generator.py       plain first-order Markov chain    *)
(*   "semi"  src/ver2/generator_semi.py  self-stay safe semi-Markov        *)
(*                                                                         *)
(* A matrix cell is a non-negative integer weight: the generators only use *)
(* ratios of cells of one row (or of row sums, or of whole-matrix sums),   *)
(* so a matrix of rationals is a matrix of integers over a common          *)
(* denominator.  A pseudo-random generator is a fixed function of its seed *)
(* and of the number of draws made so far; the function is unknown, so a   *)
(* draw is chosen freely the first time a position of a seed's stream is   *)
(* read and replayed from `tape` every later time.  A generator that was   *)
(* never seeded (seed None: operating-system entropy) draws freely.        *)
(***************************************************************************)
EXTENDS Integers, Sequences, FiniteSets, TLC

\* ------------------------------------------------------------------ bounds
MaxBars == 3
MaxStay == 2
MaxHistLen == 3
Unif == 3
RunBars == 2

\* ------------------------------------------------------- values and inputs
NoFile == [exists |-> FALSE, labels |-> <<>>, w |-> <<>>]
NoSeed == "None"
NoChord == "NoChord"
NoMode == "NoMode"
NoError == "NoError"
InvalidTokens == {"None_None"}

Quadrants == {"Q1", "Q2"}
Modes == {"major", "minor"}
Groups == Quadrants \X Modes
Impls == {"gen", "ver1", "semi"}
Seeds == {"42"}
Libs == {"random", "numpy"}
Procs == {1, 2}
Reqs == {1, 2, 3}
procOf == (1 :> 1) @@ (2 :> 1) @@ (3 :> 2)

Labelings == {<<"C">>, <<"C", "G">>, <<"C", "None_None">>}
\* a cell is zero or positive
Weights == {0, 1}
Uniforms == 0 .. (Unif - 1)

\* temperature T = num / den; 1/T is the exponent of the Boltzmann scaling
Temperatures ==
  {[num |-> 0, den |-> 1], [num |-> 1, den |-> 1], [num |-> 1, den |-> 2]}

Mats(labels) ==
  {[exists |-> TRUE, labels |-> labels, w |-> f] :
     f \in [1 .. Len(labels) -> [1 .. Len(labels) -> Weights]]}

Const(labels, v) ==
  [exists |-> TRUE, labels |-> labels,
   w |-> [i \in 1 .. Len(labels) |-> [j \in 1 .. Len(labels) |-> v]]]

\* a stay table of stay_histograms.json: run length -> probability weight,
\* in the order of the keys; <<>> is a missing (or empty) entry
EmptyTable == <<>>
Tables ==
  {EmptyTable, <<[len |-> 1, p |-> 1], [len |-> MaxHistLen, p |-> 1]>>}
ValidChords == {"C", "G"}
StayHists == [ValidChords -> Tables]

\* mode_stats.json: quadrant -> {key -> num/den}
Ratios == {<<0, 1>>, <<1, 2>>, <<1, 1>>}
StatsEntries ==
  {[k \in {"major", "minor"} |->
      IF k = "major" THEN r ELSE <<r[2] - r[1], r[2]>>] : r \in Ratios}
  \cup {[k \in {"major_ratio"} |-> r] : r \in Ratios}

\* ------------------------------------------------------------ arithmetic
RECURSIVE SumSeq(_)
SumSeq(s) == IF s = <<>> THEN 0 ELSE s[1] + SumSeq(Tail(s))

RECURSIVE Pow(_, _)
Pow(b, e) == IF e = 0 THEN 1 ELSE b * Pow(b, e - 1)

Cum(ws, i) == SumSeq(SubSeq(ws, 1, i))

Min(a, b) == IF a < b THEN a ELSE b
Max(a, b) == IF a > b THEN a ELSE b

Repeat(c, n) == [i \in 1 .. n |-> c]

\* inversion of the cumulative weights at the uniform variate (u + 1/2) / Unif:
\* the least index whose cumulative weight exceeds variate * total
Pick(ws, u) ==
  LET tot == SumSeq(ws)
      hit(i) == (2 * u + 1) * tot < 2 * Unif * Cum(ws, i)
  IN CHOOSE i \in 1 .. Len(ws) : hit(i) /\ \A j \in 1 .. (i - 1) : ~hit(j)

\* the length of the run of equal consecutive symbols that ends at position i
RECURSIVE RunAt(_, _)
RunAt(s, i) ==
  IF i = 1 \/ s[i] # s[i - 1] THEN 1 ELSE 1 + RunAt(s, i - 1)

\* ---------------------------------------------------------------- matrices
Size(m) == Len(m.labels)
IndexOf(m, c) == CHOOSE i \in 1 .. Size(m) : m.labels[i] = c
Row(m, c) == m.w[IndexOf(m, c)]
RowSums(m) == [i \in 1 .. Size(m) |-> SumSeq(m.w[i])]
Total(m) == SumSeq(RowSums(m))

\* ------------------------------------------------------------------- state
VARIABLES
  impl,       \* which generator program runs
  files,      \* MATRIX_DIR: (quadrant, mode) -> matrix file, or NoFile
  stats,      \* mode_stats.json of generator_semi.py
  STAY_HIST,  \* stay_histograms.json, loaded at import of generator.py
  args,       \* command line: quadrant, bars, max_stay, temperature, seed
  active,     \* the generation requests that run
  procpc,     \* per process: "seed" before main seeds the RNGs, then "run"
  rnd,        \* per process: state of the module-level `random` generator
  nprnd,      \* per process: state of the module-level `np.random` generator
  tape,       \* the streams of the seeded generators, as far as they were read
  pc,         \* per request: position in the program
  err,        \* per request: the exception that ended it
  mode,       \* per request: chosen mode
  matrix,     \* per request: the loaded DataFrame
  rng,        \* per request: the random.Random(seed) of generator_semi.py
  cur,        \* per request: current chord
  stay_cnt,   \* per request: stay counter of generator_semi.py
  prog,       \* per request: the output buffer
  ret,        \* per request: the returned sequence (read when pc = "done")
  corpus,     \* the lead-sheet pickles the build scripts scan
  cfg,        \* command line of the build scripts: --tau
  disk        \* what the build scripts wrote: name of the output -> content

vars == <<impl, files, stats, STAY_HIST, args, active, procpc, rnd, nprnd,
          tape, pc, err, mode, matrix, rng, cur, stay_cnt, prog, ret,
          corpus, cfg, disk>>

artifacts == <<impl, files, stats, STAY_HIST, args, active, corpus, cfg, disk>>

Ended(r) == pc[r] \in {"done", "error", "idle"}

\* Processes share nothing, so their steps commute: one order is explored,
\* the requests of process 1 (freely interleaved) before those of process 2.
Turn(p) == \A r \in active : procOf[r] < p => Ended(r)
Runnable(r) == r \in active /\ procpc[procOf[r]] = "run" /\ Turn(procOf[r])

\* --------------------------------------------------- random number streams
Fresh == [seed |-> NoSeed, pos |-> 0]
Seeded(seed) == [seed |-> seed, pos |-> 0]
Advance(st) == [st EXCEPT !.pos = @ + 1]

Draws(lib, st) ==
  IF st.seed = NoSeed THEN Uniforms
  ELSE IF st.pos < Len(tape[lib][st.seed])
       THEN {tape[lib][st.seed][st.pos + 1]}
       ELSE Uniforms

Taped(lib, st, u) ==
  IF st.seed # NoSeed /\ st.pos >= Len(tape[lib][st.seed])
  THEN [tape EXCEPT ![lib][st.seed] = Append(@, u)]
  ELSE tape

\* --------------------------------------------------------- generator.py
\* main, lines 194-196 (data_build/utils.py set_seed): the states of
\* <<random, np.random>> after seeding
set_seed_random_only(p, seed) ==
  IF seed = NoSeed THEN <<rnd[p], nprnd[p]>>
  ELSE <<Seeded(seed), nprnd[p]>>
set_seed(p, seed) ==
  IF seed = NoSeed THEN <<rnd[p], nprnd[p]>>
  ELSE <<Seeded(seed), Seeded(seed)>>

\* the file read, or NoFile for FileNotFoundError
load_other_mode(quadrant, md) ==
  IF files[<<quadrant, md>>].exists THEN files[<<quadrant, md>>]
  ELSE files[<<quadrant, CHOOSE o \in Modes : o # md>>]
load_transition_matrix(quadrant, md) == files[<<quadrant, md>>]

\* mode [raise: FileNotFoundError], drew: whether random.choices was called
choose_mode_probabilistically(quadrant, u) ==
  LET major_df == load_transition_matrix(quadrant, "major")
      minor_df == load_transition_matrix(quadrant, "minor")
  IN IF ~major_df.exists \/ ~minor_df.exists
     THEN [raise |-> "FileNotFoundError", mode |-> NoMode, drew |-> FALSE]
     ELSE LET major_w == Total(major_df)
              minor_w == Total(minor_df)
          IN IF major_w + minor_w = 0
             THEN [raise |-> NoError, mode |-> "major", drew |-> FALSE]
             ELSE [raise |-> NoError,
                   mode |-> <<"major", "minor">>[Pick(<<major_w, minor_w>>, u)],
                   drew |-> TRUE]

sample_stay_none(chord, max_stay, u) ==
  LET table == IF chord \in DOMAIN STAY_HIST THEN STAY_HIST[chord]
               ELSE EmptyTable
  IN IF table = EmptyTable
     THEN [stay |-> 0, drew |-> FALSE]
     ELSE [stay |-> Min(table[Pick([i \in 1 .. Len(table) |-> table[i].p], u)].len,
                        max_stay),
           drew |-> TRUE]

sample_stay_unclamped(chord, max_stay, u) ==
  LET table == IF chord \in DOMAIN STAY_HIST THEN STAY_HIST[chord]
               ELSE EmptyTable
  IN IF table = EmptyTable
     THEN [stay |-> 1, drew |-> FALSE]
     ELSE [stay |-> table[Pick([i \in 1 .. Len(table) |-> table[i].p], u)].len,
           drew |-> TRUE]

\* stay length for the chord; drew: whether np.random.choice was called
sample_stay(chord, max_stay, u) ==
  LET table == IF chord \in DOMAIN STAY_HIST THEN STAY_HIST[chord]
               ELSE EmptyTable
  IN IF table = EmptyTable
     THEN [stay |-> 1, drew |-> FALSE]
     ELSE LET probs == [i \in 1 .. Len(table) |-> table[i].p]
              stay == table[Pick(probs, u)].len
          IN [stay |-> Max(1, Min(stay, max_stay)), drew |-> TRUE]

\* the scaled row as numerators num over the denominator den
_apply_temperature(probs, temperature) ==
  IF temperature.num <= 0
  THEN [raise |-> "ValueError", num |-> probs, den |-> 1]
  ELSE IF SumSeq(probs) = 0
       THEN [raise |-> NoError, num |-> probs, den |-> 1]
       ELSE LET scaled == [i \in 1 .. Len(probs) |->
                             Pow(probs[i], temperature.den \div temperature.num)]
            IN [raise |-> NoError, num |-> scaled, den |-> SumSeq(scaled)]

\* generate_progression lines 119-123: the start chord (always one draw)
start_chord(m, u) ==
  LET start_weights == RowSums(m)
  IN IF SumSeq(start_weights) = 0
     THEN m.labels[Pick([i \in 1 .. Size(m) |-> 1], u)]
     ELSE m.labels[Pick(start_weights, u)]

\* ---------------------------------------------------- ver2/generator_semi.py
AlphaNum == 3
AlphaDen == 2
StuckStay == 16

CeilDiv(n, d) == (n + d - 1) \div d

\* a row of a .prob.csv is normalised: the cell a of a row of sum s is the
\* probability a / s.  expected_stay as the fraction <<numerator, denominator>>
expected_stay(a, s) ==
  IF s > 0 /\ 1000 * a >= 999 * s THEN <<StuckStay, 1>>
  ELSE IF s = 0 THEN <<1, 1>>
  ELSE <<s, s - a>>

\* mode [raise: KeyError]; the draw is rng.random()
choose_mode(quadrant, u) ==
  IF "major_ratio" \notin DOMAIN stats[quadrant]
  THEN [raise |-> "KeyError", mode |-> NoMode]
  ELSE LET major_ratio == stats[quadrant]["major_ratio"]
       IN [raise |-> NoError,
           mode |-> IF (2 * u + 1) * major_ratio[2] < 2 * Unif * major_ratio[1]
                    THEN "major" ELSE "minor"]

\* df.sum(axis=1).idxmax(): the first label of maximal row sum
idxmax(m) ==
  LET sums == RowSums(m)
      i == CHOOSE k \in 1 .. Size(m) :
             /\ \A j \in 1 .. Size(m) : sums[j] <= sums[k]
             /\ \A j \in 1 .. (k - 1) : sums[j] < sums[k]
  IN m.labels[i]

\* next_chord without `if stay_cnt >= max_stay: probs[cur] = 0.0`
next_chord_uncut(c, cnt, df) ==
  LET i == IndexOf(df, c)
      probs == df.w[i]
  IN IF SumSeq(probs) = 0 THEN [probs EXCEPT ![i] = 1] ELSE probs

\* the weights next_chord samples from
next_chord_weights(c, cnt, df) ==
  LET i == IndexOf(df, c)
      probs == df.w[i]
      mu == expected_stay(probs[i], SumSeq(probs))
      max_stay == Max(2, CeilDiv(AlphaNum * mu[1], AlphaDen * mu[2]))
      cut == IF cnt >= max_stay THEN [probs EXCEPT ![i] = 0] ELSE probs
  IN IF SumSeq(cut) = 0 THEN [cut EXCEPT ![i] = 1] ELSE cut

next_chord(c, cnt, df, u) == df.labels[Pick(next_chord_weights(c, cnt, df), u)]

\* ----------------------------------------------------------------- actions
Raise(r, e) ==
  /\ pc' = [pc EXCEPT ![r] = "error"]
  /\ err' = [err EXCEPT ![r] = e]

\* one call of the module-level `random` of the process of request r
UseRandom(r, u, drew) ==
  /\ rnd' = IF drew THEN [rnd EXCEPT ![procOf[r]] = Advance(@)] ELSE rnd
  /\ tape' = IF drew THEN Taped("random", rnd[procOf[r]], u) ELSE tape

\* one call of the module-level `np.random` of the process of request r
UseNumpy(r, u, drew) ==
  /\ nprnd' = IF drew THEN [nprnd EXCEPT ![procOf[r]] = Advance(@)] ELSE nprnd
  /\ tape' = IF drew THEN Taped("numpy", nprnd[procOf[r]], u) ELSE tape

\* one call of the request's own random.Random
UseOwn(r, st, u) ==
  /\ rng' = [rng EXCEPT ![r] = Advance(st)]
  /\ tape' = Taped("random", st, u)

\* main of generator.py and of ver1/generator.py: seed both module generators
SetSeed(p) ==
  /\ procpc[p] = "seed"
  /\ Turn(p)
  /\ \E r \in active : procOf[r] = p
  /\ procpc' = [procpc EXCEPT ![p] = "run"]
  /\ rnd' = [rnd EXCEPT ![p] = set_seed(p, args.seed)[1]]
  /\ nprnd' = [nprnd EXCEPT ![p] = set_seed(p, args.seed)[2]]
  /\ UNCHANGED <<artifacts, tape, pc, err, mode, matrix, rng, cur,
                 stay_cnt, prog, ret>>

ChooseMode(r) ==
  /\ Runnable(r)
  /\ impl \in {"gen", "ver1"}
  /\ pc[r] = "choose_mode"
  /\ \E u \in Draws("random", rnd[procOf[r]]) :
       LET res == choose_mode_probabilistically(args.quadrant, u)
       IN /\ UseRandom(r, u, res.drew)
          /\ IF res.raise # NoError
             THEN Raise(r, res.raise) /\ UNCHANGED mode
             ELSE /\ mode' = [mode EXCEPT ![r] = res.mode]
                  /\ pc' = [pc EXCEPT ![r] = "load"]
                  /\ UNCHANGED err
  /\ UNCHANGED <<artifacts, procpc, nprnd, matrix, rng, cur, stay_cnt,
                 prog, ret>>

\* generate_progression of generator_semi.py, lines 128-129
SemiChooseMode(r) ==
  /\ Runnable(r)
  /\ impl = "semi"
  /\ pc[r] = "choose_mode"
  /\ LET st == IF args.seed = NoSeed THEN Fresh ELSE Seeded(args.seed)
     IN \E u \in Draws("random", st) :
          LET res == choose_mode(args.quadrant, u)
          IN IF res.raise # NoError
             THEN /\ Raise(r, res.raise)
                  /\ rng' = [rng EXCEPT ![r] = st]
                  /\ UNCHANGED <<mode, tape>>
             ELSE /\ UseOwn(r, st, u)
                  /\ mode' = [mode EXCEPT ![r] = res.mode]
                  /\ pc' = [pc EXCEPT ![r] = "load"]
                  /\ UNCHANGED err
  /\ UNCHANGED <<artifacts, procpc, rnd, nprnd, matrix, cur, stay_cnt,
                 prog, ret>>

\* main line 199 / generator_semi.py line 130
Load(r) ==
  /\ Runnable(r)
  /\ pc[r] = "load"
  /\ LET df == load_transition_matrix(args.quadrant, mode[r])
     IN IF ~df.exists
        THEN Raise(r, "FileNotFoundError") /\ UNCHANGED matrix
        ELSE /\ matrix' = [matrix EXCEPT ![r] = df]
             /\ pc' = [pc EXCEPT ![r] = "start"]
             /\ UNCHANGED err
  /\ UNCHANGED <<artifacts, procpc, rnd, nprnd, tape, mode, rng, cur,
                 stay_cnt, prog, ret>>

\* generator.py generate_progression, lines 119-126
GenStart(r) ==
  /\ Runnable(r)
  /\ impl = "gen"
  /\ pc[r] = "start"
  /\ \E u \in Draws("random", rnd[procOf[r]]) :
       /\ UseRandom(r, u, TRUE)
       /\ cur' = [cur EXCEPT ![r] = start_chord(matrix[r], u)]
  /\ pc' = [pc EXCEPT ![r] = IF 0 < args.bars THEN "stay" ELSE "done"]
  /\ ret' = [ret EXCEPT ![r] = <<>>]
  /\ UNCHANGED <<artifacts, procpc, nprnd, err, mode, matrix, rng,
                 stay_cnt, prog>>

\* line 129: `stay = min(stay, bars - len(prog))`
whole_stay(stay, bars, buffer) == stay
remaining_stay(stay, bars, buffer) == Min(stay, bars - Len(buffer))

\* lines 132-133: `if len(prog) >= bars: break`
never_break(out, bars) == FALSE
budget_spent(out, bars) == Len(out) >= bars

\* generator.py generate_progression, lines 127-133 and 145
GenStay(r) ==
  /\ Runnable(r)
  /\ pc[r] = "stay"
  /\ \E u \in Draws("numpy", nprnd[procOf[r]]) :
       LET res == sample_stay(cur[r], args.max_stay, u)
           stay == remaining_stay(res.stay, args.bars, prog[r])
           out == prog[r] \o Repeat(cur[r], stay)
       IN /\ UseNumpy(r, u, res.drew)
          /\ prog' = [prog EXCEPT ![r] = out]
          /\ IF budget_spent(out, args.bars)
             THEN /\ pc' = [pc EXCEPT ![r] = "done"]
                  /\ ret' = [ret EXCEPT ![r] = SubSeq(out, 1, args.bars)]
             ELSE /\ pc' = [pc EXCEPT ![r] = "next"]
                  /\ UNCHANGED ret
  /\ UNCHANGED <<artifacts, procpc, rnd, err, mode, matrix, rng, cur,
                 stay_cnt>>

\* generator.py generate_progression, lines 135-143
GenNext(r) ==
  /\ Runnable(r)
  /\ pc[r] = "next"
  /\ LET probs == _apply_temperature(Row(matrix[r], cur[r]), args.temperature)
     IN IF probs.raise # NoError
        THEN Raise(r, probs.raise) /\ UNCHANGED <<cur, rnd, nprnd, tape>>
        ELSE /\ IF SumSeq(probs.num) = 0
                THEN \E u \in Draws("random", rnd[procOf[r]]) :
                       /\ UseRandom(r, u, TRUE)
                       /\ cur' = [cur EXCEPT ![r] =
                            matrix[r].labels[
                              Pick([i \in 1 .. Size(matrix[r]) |-> 1], u)]]
                       /\ UNCHANGED nprnd
                ELSE \E u \in Draws("numpy", nprnd[procOf[r]]) :
                       /\ UseNumpy(r, u, TRUE)
                       /\ cur' = [cur EXCEPT ![r] =
                            matrix[r].labels[Pick(probs.num, u)]]
                       /\ UNCHANGED rnd
             /\ pc' = [pc EXCEPT ![r] = "stay"]
             /\ UNCHANGED err
  /\ UNCHANGED <<artifacts, procpc, mode, matrix, rng, stay_cnt, prog,
                 ret>>

\* ver1/generator.py generate_chord_progression, lines 81-88
V1Start(r) ==
  /\ Runnable(r)
  /\ impl = "ver1"
  /\ pc[r] = "start"
  /\ \E u \in Draws("random", rnd[procOf[r]]) :
       /\ UseRandom(r, u, TRUE)
       /\ cur' = [cur EXCEPT ![r] = start_chord(matrix[r], u)]
       /\ prog' = [prog EXCEPT ![r] = <<start_chord(matrix[r], u)>>]
  /\ pc' = [pc EXCEPT ![r] = "v1loop"]
  /\ UNCHANGED <<artifacts, procpc, nprnd, err, mode, matrix, rng,
                 stay_cnt, ret>>

\* the weights of one step of generate_chord_progression, lines 91-96
v1_weights(m, c) ==
  LET probs == Row(m, c)
  IN IF SumSeq(probs) = 0 THEN [i \in 1 .. Size(m) |-> 1] ELSE probs

\* `for _ in range(length - 1)` after progression = [start_code]: whether
\* another iteration follows
v1_more_off(progression, length) == Len(progression) < length + 1
v1_more(progression, length) == Len(progression) < length

\* ver1/generator.py generate_chord_progression, lines 90-99
V1Step(r) ==
  /\ Runnable(r)
  /\ pc[r] = "v1loop"
  /\ IF v1_more(prog[r], args.bars)
     THEN \E u \in Draws("random", rnd[procOf[r]]) :
            LET current == matrix[r].labels[Pick(v1_weights(matrix[r], cur[r]), u)]
            IN /\ UseRandom(r, u, TRUE)
               /\ cur' = [cur EXCEPT ![r] = current]
               /\ prog' = [prog EXCEPT ![r] = Append(@, current)]
               /\ UNCHANGED <<pc, ret>>
     ELSE /\ pc' = [pc EXCEPT ![r] = "done"]
          /\ ret' = [ret EXCEPT ![r] = prog[r]]
          /\ UNCHANGED <<cur, prog, rnd, tape>>
  /\ UNCHANGED <<artifacts, procpc, nprnd, err, mode, matrix, rng,
                 stay_cnt>>

\* generator_semi.py generate_progression, lines 133-137
SemiStart(r) ==
  /\ Runnable(r)
  /\ impl = "semi"
  /\ pc[r] = "start"
  /\ cur' = [cur EXCEPT ![r] = idxmax(matrix[r])]
  /\ prog' = [prog EXCEPT ![r] = <<idxmax(matrix[r])>>]
  /\ stay_cnt' = [stay_cnt EXCEPT ![r] = 0]
  /\ pc' = [pc EXCEPT ![r] = "semiloop"]
  /\ UNCHANGED <<artifacts, procpc, rnd, nprnd, tape, err, mode, matrix,
                 rng, ret>>

\* generator_semi.py generate_progression, lines 138-146
SemiStep(r) ==
  /\ Runnable(r)
  /\ pc[r] = "semiloop"
  /\ IF Len(prog[r]) < args.bars
     THEN \E u \in Draws("random", rng[r]) :
            LET nxt == next_chord(cur[r], stay_cnt[r], matrix[r], u)
            IN /\ UseOwn(r, rng[r], u)
               /\ stay_cnt' = [stay_cnt EXCEPT ![r] =
                                 IF nxt = cur[r] THEN @ + 1 ELSE 0]
               /\ prog' = [prog EXCEPT ![r] = Append(@, nxt)]
               /\ cur' = [cur EXCEPT ![r] = nxt]
               /\ UNCHANGED <<pc, ret>>
     ELSE /\ pc' = [pc EXCEPT ![r] = "done"]
          /\ ret' = [ret EXCEPT ![r] = prog[r]]
          /\ UNCHANGED <<cur, prog, stay_cnt, rng, tape>>
  /\ UNCHANGED <<artifacts, procpc, rnd, nprnd, err, mode, matrix>>

Next ==
  \/ \E p \in Procs : SetSeed(p)
  \/ \E r \in Reqs : ChooseMode(r)
  \/ \E r \in Reqs : SemiChooseMode(r)
  \/ \E r \in Reqs : Load(r)
  \/ \E r \in Reqs : GenStart(r)
  \/ \E r \in Reqs : GenStay(r)
  \/ \E r \in Reqs : GenNext(r)
  \/ \E r \in Reqs : V1Start(r)
  \/ \E r \in Reqs : V1Step(r)
  \/ \E r \in Reqs : SemiStart(r)
  \/ \E r \in Reqs : SemiStep(r)

\* ------------------------------------------------------------ initial states
\* what the program reads of its command line
ArgsOf(i, seeds) ==
  {a \in [quadrant : Quadrants, bars : 0 .. MaxBars, max_stay : 1 .. MaxStay,
          temperature : Temperatures, seed : seeds] :
     i # "gen" => a.max_stay = 1 /\ a.temperature = [num |-> 1, den |-> 1]}

\* one build: every file has the same labels.  Of the two files of the
\* requested quadrant one ranges over all matrices (or is missing) and the
\* other is missing, all zero or uniform; the files of the other quadrants
\* are uniform
FilesOf(q) ==
  UNION {
    {[g \in Groups |->
        IF g[1] # q THEN Const(labels, 1)
        ELSE IF g[2] = md THEN a ELSE b] :
       md \in Modes,
       a \in Mats(labels) \cup {NoFile},
       b \in {NoFile, Const(labels, 0), Const(labels, 1)}} :
    labels \in Labelings}

NoHist == [c \in ValidChords |-> EmptyTable]

\* generation time: no build script runs
NoBuild ==
  /\ corpus = <<>>
  /\ cfg = [tau |-> <<0, 1>>, cap |-> <<2, 5>>, ignorecase |-> TRUE]
  /\ disk = <<>>

Started(act) ==
  /\ active = act
  /\ procpc = [p \in Procs |-> IF impl = "semi" THEN "run" ELSE "seed"]
  /\ rnd = [p \in Procs |-> Fresh]
  /\ nprnd = [p \in Procs |-> Fresh]
  /\ tape = [lib \in Libs |-> [s \in Seeds |-> <<>>]]
  /\ pc = [r \in Reqs |-> IF r \in act THEN "choose_mode" ELSE "idle"]
  /\ err = [r \in Reqs |-> NoError]
  /\ mode = [r \in Reqs |-> NoMode]
  /\ matrix = [r \in Reqs |-> NoFile]
  /\ rng = [r \in Reqs |-> Fresh]
  /\ cur = [r \in Reqs |-> NoChord]
  /\ stay_cnt = [r \in Reqs |-> 0]
  /\ prog = [r \in Reqs |-> <<>>]
  /\ ret = [r \in Reqs |-> <<>>]

\* one run of one program
Init ==
  /\ impl \in Impls
  /\ args \in ArgsOf(impl, {NoSeed})
  /\ files \in FilesOf(args.quadrant)
  /\ stats \in {[q \in Quadrants |-> e] :
                  e \in IF impl = "semi" THEN StatsEntries
                        ELSE {[k \in {"major_ratio"} |-> <<1, 2>>]}}
  /\ STAY_HIST \in IF impl = "gen" THEN StayHists ELSE {NoHist}
  /\ Started({1})
  /\ NoBuild

Spec == Init /\ [][Next]_vars

\* one run of generator.py on the matrices of a quadrant whose minor matrix
\* has no weight
InitGen ==
  /\ Init
  /\ impl = "gen"
  /\ args.quadrant = "Q1"
  /\ files[<<"Q1", "major">>].exists
  /\ files[<<"Q1", "minor">>].exists
  /\ Total(files[<<"Q1", "minor">>]) = 0

NextGen ==
  \/ \E p \in Procs : SetSeed(p)
  \/ \E r \in Reqs : ChooseMode(r)
  \/ \E r \in Reqs : Load(r)
  \/ \E r \in Reqs : GenStart(r)
  \/ \E r \in Reqs : GenStay(r)
  \/ \E r \in Reqs : GenNext(r)

\* the interpreter keeps executing a program that has a next statement
SpecGen == InitGen /\ [][NextGen]_vars /\ WF_vars(NextGen)

\* two runs of one program on the same artifacts and the same command line,
\* each in a process of its own
RunInputs ==
  /\ impl \in Impls
  /\ args \in {a \in ArgsOf(impl, Seeds \cup {NoSeed}) :
                 /\ a.quadrant = "Q1"
                 /\ a.bars \in 1 .. RunBars
                 /\ impl = "gen" => a.max_stay = MaxStay
                 /\ a.temperature.num = 1 /\ a.temperature.den = 1}
  /\ files = [g \in Groups |-> Const(<<"C", "G">>, 1)]
  /\ stats = [q \in Quadrants |-> [k \in {"major_ratio"} |-> <<1, 2>>]]
  /\ STAY_HIST \in IF impl = "gen"
                   THEN {NoHist} \cup
                        {[c \in ValidChords |->
                            IF c = "C" THEN t ELSE EmptyTable] :
                           t \in Tables \ {EmptyTable}}
                   ELSE {NoHist}
  /\ NoBuild

InitRuns == RunInputs /\ Started({1, 3})

SpecRuns == InitRuns /\ [][Next]_vars

\* requests 1 and 2 interleaved in one process, request 3 alone in another
InitShared == RunInputs /\ Started({1, 2, 3})

SpecShared == InitShared /\ [][Next]_vars

\* ================================================================ the build
\* ------------------------------------------------------------- fractions
\* a cell of a DataFrame or of an array is the fraction <<n, d>>, d > 0, in
\* lowest terms
RECURSIVE GCD(_, _)
GCD(a, b) == IF b = 0 THEN a ELSE GCD(b, a % b)

Abs(n) == IF n < 0 THEN 0 - n ELSE n

Frac(n, d) ==
  LET s == IF d < 0 THEN 0 - 1 ELSE 1
      g == GCD(Abs(n), Abs(d))
  IN <<(s * n) \div g, (s * d) \div g>>

Zero == <<0, 1>>
One == <<1, 1>>
Half == <<1, 2>>

FAdd(a, b) == Frac(a[1] * b[2] + b[1] * a[2], a[2] * b[2])
FSub(a, b) == Frac(a[1] * b[2] - b[1] * a[2], a[2] * b[2])
FMul(a, b) == Frac(a[1] * b[1], a[2] * b[2])
FDiv(a, b) == Frac(a[1] * b[2], a[2] * b[1])
FEq(a, b) == a[1] * b[2] = b[1] * a[2]
FLt(a, b) == a[1] * b[2] < b[1] * a[2]
FLe(a, b) == a[1] * b[2] <= b[1] * a[2]

RECURSIVE FSum(_)
FSum(s) == IF s = <<>> THEN Zero ELSE FAdd(s[1], FSum(Tail(s)))

\* --------------------------------------------------------------- DataFrames
\* a DataFrame: row labels, column labels, cells by position
Frame(index, columns, cell) ==
  [index |-> index, columns |-> columns, cell |-> cell]

RowTotals(df) == [i \in 1 .. Len(df.index) |-> FSum(df.cell[i])]

\* df.div(divisor, axis=0)
DivRows(df, divisor) ==
  Frame(df.index, df.columns,
    [i \in 1 .. Len(df.index) |-> [j \in 1 .. Len(df.columns) |->
       FDiv(df.cell[i][j], divisor[i])]])

\* Series.replace(0, 1)
replace_0_1(series) ==
  [i \in DOMAIN series |-> IF FEq(series[i], Zero) THEN One ELSE series[i]]

Range(s) == {s[i] : i \in DOMAIN s}

\* ------------------------------------------------------------------ corpus
MaxEvents == 3
BeatsPerBar == 4

None == "None"
ChordValues == {"C", "G", "None_None", None}
ChordEvent(v) == [name |-> "Chord", value |-> v]
BarEvent == [name |-> "Bar", value |-> None]
Events == {ChordEvent(v) : v \in ChordValues} \cup {BarEvent}
Keys == {"C", "a"}

\* event lists: all short ones, the pairs of chords, and, without Bar events,
\* those that are one beat longer than a bar
EventLists == UNION {[1 .. n -> Events] : n \in 0 .. MaxEvents}
PairLists == [1 .. 2 -> {ChordEvent(v) : v \in ChordValues}]
BeatLists ==
  {l \in [1 .. (BeatsPerBar + 1) -> {ChordEvent(v) : v \in ChordValues \ {None}}] :
     \A i \in 3 .. BeatsPerBar : l[i] = l[2]}

\* two bars of one chord event each, separated by a Bar event
BarLists ==
  {l \in [1 .. 3 -> Events] :
     l[1] # BarEvent /\ l[2] = BarEvent /\ l[3] # BarEvent}

ItemsOf(lists) == [quadrant : Quadrants, key : Keys, events : lists]

\* the pickles of a lead_sheet directory: one item, or two short ones
Corpora ==
  {<<a>> : a \in ItemsOf(EventLists \cup BeatLists)}
  \cup {<<a, b>> : a \in {i \in ItemsOf(PairLists) : i.quadrant = "Q1"},
                    b \in ItemsOf(PairLists)}
  \cup {<<a, b>> :
          a \in {i \in ItemsOf(BarLists) : i.quadrant = "Q1" /\ i.key = "C"},
          b \in {i \in ItemsOf(PairLists) : i.quadrant = "Q1" /\ i.key = "C"}}

\* sorted() of a set of chord values; str and NoneType do not compare
CodeOrder == <<"Am", "C", "G", "None_None", None>>
Unorderable(S) == None \in S /\ S # {None}
sorted(S) == SelectSeq(CodeOrder, LAMBDA c : c \in S)

\* the adjacent pairs (prev, nxt) of a list
PairsIn(chords, prev, nxt) ==
  Cardinality({i \in 1 .. (Len(chords) - 1) :
                 chords[i] = prev /\ chords[i + 1] = nxt})

isupper(key) == key \in {"C"}

\* ------------------------------------------ build_markov_matrices_by_mode.py
extract_chords(event_list) ==
  LET chords == SelectSeq(event_list, LAMBDA ev : ev.name = "Chord")
  IN [i \in 1 .. Len(chords) |-> chords[i].value]

\* the pairs of the chords of all files laid end to end
count_transitions_joined(seqs, prev, nxt) ==
  LET joined[n \in 0 .. Len(seqs)] ==
        IF n = 0 THEN <<>> ELSE joined[n - 1] \o seqs[n]
  IN PairsIn(joined[Len(seqs)], prev, nxt)

\* lines 86-90: the pairs of zip(chords[:-1], chords[1:]), one file at a time;
\* a file with fewer than two chords is skipped
count_transitions(seqs, prev, nxt) ==
  SumSeq([k \in 1 .. Len(seqs) |->
            IF Len(seqs[k]) < 2 THEN 0 ELSE PairsIn(seqs[k], prev, nxt)])

\* raise, and files: the groups written -> the DataFrame of {quadrant}_{mode}.csv
build_matrices(input_dir) ==
  LET chords(k) == extract_chords(input_dir[k].events)
      group(k) == <<input_dir[k].quadrant,
                    IF isupper(input_dir[k].key) THEN "major" ELSE "minor">>
      all_codes == UNION {Range(chords(k)) : k \in 1 .. Len(input_dir)}
      counted == {k \in 1 .. Len(input_dir) : Len(chords(k)) >= 2}
      transition_counts(g, prev, nxt) ==
        count_transitions([k \in 1 .. Len(input_dir) |->
                             IF group(k) = g THEN chords(k) ELSE <<>>],
                          prev, nxt)
      codes_sorted == sorted(all_codes)
      df(g) == Frame(codes_sorted, codes_sorted,
    [i \in 1 .. Len(codes_sorted) |-> [j \in 1 .. Len(codes_sorted) |->
       <<transition_counts(g, codes_sorted[i], codes_sorted[j]), 1>>]])
      prob_df(g) == DivRows(df(g), replace_0_1(RowTotals(df(g))))
  IN IF counted # {} /\ Unorderable(all_codes)
     THEN [raise |-> "TypeError", files |-> <<>>]
     ELSE [raise |-> NoError,
           files |-> [g \in {group(k) : k \in counted} |-> prob_df(g)]]

\* -------------------------------------- ver2/build_markov_matrices_by_mode.py
\* every item of the corpus has a Key event
key_mode(item) == IF isupper(item.key) THEN "major" ELSE "minor"

chord_sequence(tokens) == extract_chords(tokens)

\* collect: group, prev, cur -> count, pairs with a None skipped
collect(root, g, prev, nxt) ==
  IF prev = None \/ nxt = None THEN 0
  ELSE SumSeq([k \in 1 .. Len(root) |->
                 IF <<root[k].quadrant, key_mode(root[k])>> = g
                 THEN PairsIn(chord_sequence(root[k].events), prev, nxt)
                 ELSE 0])

collected_groups(root) ==
  {g \in Groups : \E prev \in ChordValues, nxt \in ChordValues :
                    collect(root, g, prev, nxt) > 0}

counter_to_df(root, g) ==
  LET rows == sorted({r \in ChordValues :
                        \E c \in ChordValues : collect(root, g, r, c) > 0})
      cols == sorted({c \in ChordValues :
                        \E r \in ChordValues : collect(root, g, r, c) > 0})
  IN Frame(rows, cols,
    [i \in 1 .. Len(rows) |-> [j \in 1 .. Len(cols) |->
       <<collect(root, g, rows[i], cols[j]), 1>>]])

\* save_matrices: the count matrices {g}.csv and the matrices {g}.prob.csv
save_matrices(root) ==
  [raise |-> NoError,
   files |-> [g \in collected_groups(root) |-> counter_to_df(root, g)],
   prob |-> [g \in collected_groups(root) |->
               DivRows(counter_to_df(root, g),
                       RowTotals(counter_to_df(root, g)))]]

\* ------------------------------------------------- data_build/build_semi.py
StatQuadrants == {"Q1", "Q2", "Q3", "Q4"}
Taus == {Zero, <<2, 5>>}

smooth_no_tau(df, tau) ==
  DivRows(df, replace_0_1(RowTotals(df)))

smooth_and_normalise(df, tau) ==
  LET added == Frame(df.index, df.columns,
    [i \in 1 .. Len(df.index) |-> [j \in 1 .. Len(df.columns) |->
       FAdd(df.cell[i][j], tau)]])
  IN DivRows(added, replace_0_1(RowTotals(added)))

stats_default_zero(maj, minu) ==
  LET tot == maj + minu
  IN [major |-> IF tot # 0 THEN Frac(maj, tot) ELSE Zero,
      minor |-> IF tot # 0 THEN Frac(minu, tot) ELSE Zero]

\* one entry of collect_mode_stats, lines 51-54
mode_ratio(maj, minu) ==
  LET tot == maj + minu
  IN [major |-> IF tot # 0 THEN Frac(maj, tot) ELSE Half,
      minor |-> IF tot # 0 THEN Frac(minu, tot) ELSE Half]

\* csv_paths: the stems {quadrant}_{mode} found in the input directory
collect_mode_stats(csv_paths) ==
  LET counter(q, md) == Cardinality({p \in csv_paths : p = <<q, md>>})
  IN [q \in StatQuadrants |->
        mode_ratio(counter(q, "major"), counter(q, "minor"))]

\* main: nothing is written when the directory holds no Q*_*.csv
build_semi(in_dir, tau) ==
  IF DOMAIN in_dir = {}
  THEN [raise |-> NoError, written |-> FALSE, stats |-> <<>>, files |-> <<>>]
  ELSE [raise |-> NoError, written |-> TRUE,
        stats |-> collect_mode_stats(DOMAIN in_dir),
        files |-> [g \in DOMAIN in_dir |-> smooth_and_normalise(in_dir[g], tau)]]

\* ------------------------------------------ ver2/normalize_markov_matrices.py
normalize_and_save(df) ==
  LET laplace == Frame(df.index, df.columns,
    [i \in 1 .. Len(df.index) |-> [j \in 1 .. Len(df.columns) |->
       FAdd(df.cell[i][j], One)]])
  IN DivRows(laplace, RowTotals(laplace))

\* ---------------------------------- ver2/generate_chord_progression_auto_mode.py
\* os.path.exists of {quadrant.lower()}_{mode}.npy in a directory that holds
\* {quadrant}_{mode}.npy: found where file names compare without case
npy_exists(npy_dir, ignorecase, g) == ignorecase /\ g \in DOMAIN npy_dir

load_mode_probabilities(npy_dir, csv_dir, ignorecase, quadrant) ==
  LET has_major == npy_exists(npy_dir, ignorecase, <<quadrant, "major">>)
      has_minor == npy_exists(npy_dir, ignorecase, <<quadrant, "minor">>)
  IN IF has_major /\ has_minor
     THEN LET major_lines == Len(csv_dir[<<quadrant, "major">>].index)
              minor_lines == Len(csv_dir[<<quadrant, "minor">>].index)
              total == major_lines + minor_lines
          IN IF total = 0
             THEN [raise |-> "ZeroDivisionError", major |-> Zero, minor |-> Zero]
             ELSE [raise |-> NoError,
                   major |-> Frac(major_lines, total),
                   minor |-> FSub(One, Frac(major_lines, total))]
     ELSE IF has_major THEN [raise |-> NoError, major |-> One, minor |-> Zero]
     ELSE IF has_minor THEN [raise |-> NoError, major |-> Zero, minor |-> One]
     ELSE [raise |-> "FileNotFoundError", major |-> Zero, minor |-> Zero]

\* -------------------------------------------------------- the build scripts
Wrote(name) == name \in DOMAIN disk
Write(name, content) == disk' = disk @@ (name :> content)
Generating == <<impl, files, stats, STAY_HIST, args, active, procpc, rnd, nprnd,
                tape, pc, err, mode, matrix, rng, cur, stay_cnt, prog, ret>>

\* python build_markov_matrices_by_mode.py --output markov_matrices_mode
BuildMatrices ==
  /\ ~Wrote("csv")
  /\ Write("csv", build_matrices(corpus))
  /\ UNCHANGED <<Generating, corpus, cfg>>

\* python ver2/build_markov_matrices_by_mode.py --output markov_matrices_mode
SaveMatrices ==
  /\ ~Wrote("csv")
  /\ Write("csv", save_matrices(corpus))
  /\ UNCHANGED <<Generating, corpus, cfg>>

\* python build_semi.py --input markov_matrices_mode --tau cfg.tau
BuildSemi ==
  /\ Wrote("csv")
  /\ ~Wrote("matrices")
  /\ Write("matrices", build_semi(disk["csv"].files, cfg.tau))
  /\ UNCHANGED <<Generating, corpus, cfg>>

\* python normalize_markov_matrices.py: every csv of markov_matrices_mode
NormalizeAll ==
  /\ Wrote("csv")
  /\ ~Wrote("normalized_matrices")
  /\ Write("normalized_matrices",
           [g \in DOMAIN disk["csv"].files |->
              normalize_and_save(disk["csv"].files[g])])
  /\ UNCHANGED <<Generating, corpus, cfg>>

\* generate_chord_progression_auto_mode.py asks for the mode ratio of a quadrant
LoadModeProbabilities ==
  /\ Wrote("normalized_matrices")
  /\ ~Wrote("mode_probabilities")
  /\ \E quadrant \in StatQuadrants :
       Write("mode_probabilities",
             [quadrant |-> quadrant] @@
             load_mode_probabilities(disk["normalized_matrices"],
                                     disk["csv"].files, cfg.ignorecase, quadrant))
  /\ UNCHANGED <<Generating, corpus, cfg>>

\* --------------------------------------------- ver2/smooth_markov_matrices.py
\* counts.loc[idx] of smooth_and_clip after the Laplace +1: the clipped row
clip_row(row, i, tau) ==
  LET p_self == row[i]
      total == FSum(row)
      p == FDiv(p_self, total)
      excess == FSub(p, tau)
      keep == FMul(tau, total)
      give == FMul(excess, total)
      others == (1 .. Len(row)) \ {i}
  IN IF FLt(tau, p)
     THEN [j \in 1 .. Len(row) |->
             IF j = i THEN keep
             ELSE FAdd(row[j], FDiv(give, <<Cardinality(others), 1>>))]
     ELSE row

\* df is square, rows and columns labelled alike (main reindexes it so)
smooth_and_clip(df, tau) ==
  LET laplace == Frame(df.index, df.columns,
    [i \in 1 .. Len(df.index) |-> [j \in 1 .. Len(df.columns) |->
       FAdd(df.cell[i][j], One)]])
      counts == [i \in 1 .. Len(df.index) |-> clip_row(laplace.cell[i], i, tau)]
      clipped == Frame(df.index, df.columns,
    [i \in 1 .. Len(df.index) |-> [j \in 1 .. Len(df.columns) |->
       counts[i][j]]])
  IN DivRows(clipped, RowTotals(clipped))

\* the cell of the labels (r, c), or fill_value
At(df, r, c, fill_value) ==
  IF r \in Range(df.index) /\ c \in Range(df.columns)
  THEN df.cell[CHOOSE i \in 1 .. Len(df.index) : df.index[i] = r]
              [CHOOSE j \in 1 .. Len(df.columns) : df.columns[j] = c]
  ELSE fill_value

\* main, lines 97-98: df.reindex(index=all_syms, columns=all_syms, fill_value=0)
\* (normalize_symbol leaves the labels of this model as they are: none has a
\* slash or an accidental after the underscore)
reindex(df) ==
  LET all_syms == sorted(Range(df.index) \cup Range(df.columns))
  IN Frame(all_syms, all_syms,
    [i \in 1 .. Len(all_syms) |-> [j \in 1 .. Len(all_syms) |->
       At(df, all_syms[i], all_syms[j], Zero)]])

\* --------------------------------------------------- ver1/convert_csv_to_npy.py
Eps == <<1, 100000000>>

row_normalize(df) ==
  LET row_sums == RowTotals(df)
      zero_rows(i) == FLt(row_sums[i], Eps)
  IN Frame(df.index, df.columns,
    [i \in 1 .. Len(df.index) |-> [j \in 1 .. Len(df.columns) |->
       IF zero_rows(i) THEN Frac(1, Len(df.columns))
       ELSE FDiv(df.cell[i][j], row_sums[i])]])

\* ---------------------------------------------------- make_stay_histograms.py
Invalid(c) == c \in {None, "None_None"}

\* branch A, lines 71-84: the loop from event i on
RECURSIVE bars_by_bar_events(_, _, _, _)
bars_by_bar_events(events, i, cur_chord, bar_chords) ==
  LET flushed == IF Invalid(cur_chord) THEN bar_chords
                 ELSE Append(bar_chords, cur_chord)
  IN IF i > Len(events) THEN flushed
     ELSE IF events[i].name = "Bar"
          THEN bars_by_bar_events(events, i + 1, None, flushed)
          ELSE IF events[i].name = "Chord" /\ cur_chord = None
               THEN bars_by_bar_events(events, i + 1, events[i].value, bar_chords)
               ELSE bars_by_bar_events(events, i + 1, cur_chord, bar_chords)

\* branch B, lines 87-96: the loop from beat i on
RECURSIVE bars_by_beats(_, _, _)
bars_by_beats(chords, i, bar_chords) ==
  IF i > Len(chords) THEN bar_chords
  ELSE LET grp == SelectSeq(SubSeq(chords, i, Min(i + BeatsPerBar - 1, Len(chords))),
                            LAMBDA c : ~Invalid(c))
       IN bars_by_beats(chords, i + BeatsPerBar,
                        IF grp # <<>> THEN Append(bar_chords, grp[1])
                        ELSE bar_chords)

keep_invalid_bars(events) == extract_chords(events)

extract_bar_chords(events) ==
  IF \E i \in 1 .. Len(events) : events[i].name = "Bar"
  THEN bars_by_bar_events(events, 1, None, <<>>)
  ELSE bars_by_beats(extract_chords(events), 1, <<>>)

\* whether position i of bar_chords ends a run, and the length of that run
EndsRun(bar_chords, i) == i = Len(bar_chords) \/ bar_chords[i + 1] # bar_chords[i]

\* build_histograms, lines 115-124: the loop from bar i on; acc holds the
\* runs [chord, len] counted so far, the last append is the flush of line 124
RECURSIVE count_runs(_, _, _, _, _)
count_runs(bar_chords, i, prev, run_len, acc) ==
  IF i > Len(bar_chords)
  THEN Append(acc, [chord |-> prev, len |-> run_len])
  ELSE IF bar_chords[i] = prev
       THEN count_runs(bar_chords, i + 1, prev, run_len + 1, acc)
       ELSE count_runs(bar_chords, i + 1, bar_chords[i], 1,
                       Append(acc, [chord |-> prev, len |-> run_len]))

\* the runs one file adds to hist; a file without bar chords is skipped
file_runs(bar_chords) ==
  IF bar_chords = <<>> THEN <<>>
  ELSE count_runs(bar_chords, 2, bar_chords[1], 1, <<>>)

\* build_histograms, lines 105-124: hist[chord][run_len] over all files
hist_count(pkl_root, chord, run_len) ==
  SumSeq([k \in 1 .. Len(pkl_root) |->
            LET runs == file_runs(extract_bar_chords(pkl_root[k].events))
            IN Cardinality({n \in 1 .. Len(runs) :
                              runs[n].chord = chord /\ runs[n].len = run_len})])

\* the longest run a file can hold: one bar per event
MaxRun(pkl_root) ==
  LET longest[k \in 0 .. Len(pkl_root)] ==
        IF k = 0 THEN 1 ELSE Max(longest[k - 1], Len(pkl_root[k].events))
  IN longest[Len(pkl_root)]

\* written: whether stay_histograms.json was written; result: chord -> the
\* entries [len, p] in the order of the run lengths
build_histograms(pkl_root) ==
  LET file_cnt == Cardinality({k \in 1 .. Len(pkl_root) :
                                 extract_bar_chords(pkl_root[k].events) # <<>>})
      chords == UNION {{r.chord : r \in Range(file_runs(
                                     extract_bar_chords(pkl_root[k].events)))} :
                        k \in 1 .. Len(pkl_root)}
      total(c) == SumSeq([L \in 1 .. MaxRun(pkl_root) |->
                            hist_count(pkl_root, c, L)])
      lens(c) == SelectSeq([L \in 1 .. MaxRun(pkl_root) |-> L],
                           LAMBDA L : hist_count(pkl_root, c, L) > 0)
  IN IF file_cnt = 0 THEN [written |-> FALSE, result |-> <<>>]
     ELSE [written |-> TRUE,
           result |-> [c \in chords |->
                         [n \in 1 .. Len(lens(c)) |->
                            [len |-> lens(c)[n],
                             p |-> Frac(hist_count(pkl_root, c, lens(c)[n]),
                                        total(c))]]]]

\* ------------------------------------------------------- data_build/utils.py
\* extract_stay_lengths without the append after the loop
RECURSIVE stay_lengths_open(_, _, _, _, _)
stay_lengths_open(seq, i, c, cnt, lengths) ==
  IF i > Len(seq) THEN lengths
  ELSE IF seq[i] = c THEN stay_lengths_open(seq, i + 1, c, cnt + 1, lengths)
       ELSE stay_lengths_open(seq, i + 1, seq[i], 1, Append(lengths, cnt))

\* extract_stay_lengths, lines 157-164: the loop from element i on
RECURSIVE stay_lengths_from(_, _, _, _, _)
stay_lengths_from(seq, i, c, cnt, lengths) ==
  IF i > Len(seq) THEN Append(lengths, cnt)
  ELSE IF seq[i] = c THEN stay_lengths_from(seq, i + 1, c, cnt + 1, lengths)
       ELSE stay_lengths_from(seq, i + 1, seq[i], 1, Append(lengths, cnt))

extract_stay_lengths(seq) ==
  IF seq = <<>> THEN <<>> ELSE stay_lengths_from(seq, 2, seq[1], 1, <<>>)

\* ------------------------------------------------ the build scripts, continued
\* python smooth_markov_matrices.py --input markov_matrices_mode --tau cfg.cap
SmoothAndClip ==
  /\ Wrote("csv")
  /\ ~Wrote("prob_csv")
  /\ Write("prob_csv",
           [g \in DOMAIN disk["csv"].files |->
              smooth_and_clip(reindex(disk["csv"].files[g]), cfg.cap)])
  /\ UNCHANGED <<Generating, corpus, cfg>>

\* python convert_csv_to_npy.py --csv_dir markov_matrices_mode; the chords of
\* chord_index_map.txt are those of the file that glob listed last
ConvertAll ==
  /\ Wrote("csv")
  /\ ~Wrote("npy")
  /\ LET csv_dir == disk["csv"].files
         arrays == [g \in DOMAIN csv_dir |-> row_normalize(csv_dir[g])]
     IN IF DOMAIN csv_dir = {}
        THEN Write("npy", [raise |-> "NameError", files |-> arrays,
                           chords |-> <<>>])
        ELSE \E last \in DOMAIN csv_dir :
               Write("npy", [raise |-> NoError, files |-> arrays,
                             chords |-> csv_dir[last].index])
  /\ UNCHANGED <<Generating, corpus, cfg>>

\* python make_stay_histograms.py --pkl-root corpus
BuildHistograms ==
  /\ ~Wrote("stay_histograms")
  /\ Write("stay_histograms", build_histograms(corpus))
  /\ UNCHANGED <<Generating, corpus, cfg>>

NextBuild ==
  \/ BuildMatrices
  \/ SaveMatrices
  \/ BuildSemi
  \/ NormalizeAll
  \/ LoadModeProbabilities
  \/ BuildHistograms

NextSmooth ==
  \/ BuildSemi
  \/ NormalizeAll
  \/ SmoothAndClip
  \/ ConvertAll

\* no generation request runs while the artifacts are built
NotGenerating ==
  /\ impl = "gen"
  /\ args = [quadrant |-> "Q1", bars |-> 0, max_stay |-> 1,
             temperature |-> [num |-> 1, den |-> 1], seed |-> NoSeed]
  /\ files = [g \in Groups |-> NoFile]
  /\ stats = [q \in Quadrants |-> [k \in {"major_ratio"} |-> <<1, 2>>]]
  /\ STAY_HIST = NoHist
  /\ Started({})

Caps == {<<2, 5>>}
Configs == [tau : Taus, cap : Caps, ignorecase : BOOLEAN]

\* the build from a corpus
InitBuild ==
  /\ NotGenerating
  /\ corpus \in Corpora
  /\ cfg \in {c \in Configs : c.tau = <<2, 5>>}
  /\ disk = <<>>

SpecBuild == InitBuild /\ [][NextBuild]_vars

\* the smoothing scripts on a directory that holds one matrix
MaxCount == 2
SmoothLabels == <<"Am", "C", "G">>
Shares == {Zero, <<1, 20>>, <<1, 5>>, <<1, 4>>, <<2, 5>>, <<1, 2>>, <<9, 10>>}
Cells == {<<n, 1>> : n \in 0 .. MaxCount} \cup Shares

\* rows of counts, and rows of shares that sum to at most 1
InputRows(n) ==
  {r \in [1 .. n -> Cells] :
     \/ \A j \in 1 .. n : r[j][2] = 1
     \/ FLe(FSum(r), One)}

InputFrames ==
  UNION {{Frame(SubSeq(SmoothLabels, 1, n), SubSeq(SmoothLabels, 1, n),
    [i \in 1 .. n |-> [j \in 1 .. n |->
       IF i = 1 THEN first[j]
       ELSE IF i = j THEN rest[1] ELSE rest[2]]]) :
            first \in InputRows(n), rest \in [1 .. 2 -> {Zero, One}]} :
         n \in 1 .. Len(SmoothLabels)}

InitSmooth ==
  /\ NotGenerating
  /\ corpus = <<>>
  /\ cfg \in {c \in Configs : c.ignorecase}
  /\ \E df \in InputFrames :
       disk = ("csv" :> [raise |-> NoError, files |-> (<<"Q1", "major">> :> df)])

SpecSmooth == InitSmooth /\ [][NextSmooth]_vars

\* ------------------------------------------------------ run-length extraction
MaxSeq == 6
StaySymbols == {"C", "Dm", "G"}
StaySeqs == UNION {[1 .. n -> StaySymbols] : n \in 0 .. MaxSeq}

\* a lead sheet of one chord per bar
OneChordBars(seq) ==
  [i \in 1 .. 2 * Len(seq) |->
     IF i % 2 = 1 THEN BarEvent ELSE ChordEvent(seq[i \div 2])]

\* extract_stay_lengths(seq) on the chords of every lead sheet
ExtractStayLengths ==
  /\ ~Wrote("stay_lengths")
  /\ Write("stay_lengths",
           [k \in 1 .. Len(corpus) |->
              extract_stay_lengths(extract_chords(corpus[k].events))])
  /\ UNCHANGED <<Generating, corpus, cfg>>

NextStay ==
  \/ ExtractStayLengths
  \/ BuildHistograms

InitStay ==
  /\ NotGenerating
  /\ \E seq \in StaySeqs :
       corpus = <<[quadrant |-> "Q1", key |-> "C", events |-> OneChordBars(seq)]>>
  /\ cfg \in {c \in Configs : c.tau = Zero /\ c.ignorecase}
  /\ disk = <<>>

SpecStay == InitStay /\ [][NextStay]_vars

\* ========================================================= ver2/generator.py
\* "ver2": MODE_DIR is `files`, BEAT_DIR is disk["markov_matrices_beat_smooth"],
\* (mode, beat) -> matrix file of the requested quadrant
BEAT_DIR == "markov_matrices_beat_smooth"
BeatsPerBarV2 == 4
Beats == 0 .. (BeatsPerBarV2 - 1)
SafeMaxStay == 4

\* load_csv, lines 35-44: the .csv or the .prob.csv, or NoFile for
\* FileNotFoundError
get_matrix(quadrant, md) == files[<<quadrant, md>>]
get_beat_matrix(md, beat) == disk[BEAT_DIR][<<md, beat>>]

\* Series.idxmax(): the first position of the maximum
series_idxmax(probs) ==
  CHOOSE k \in 1 .. Len(probs) :
    /\ \A j \in 1 .. Len(probs) : probs[j] <= probs[k]
    /\ \A j \in 1 .. (k - 1) : probs[j] < probs[k]

\* safe_choice, lines 55-68, up to the draw.  weights: what random.choices
\* draws from; inplace: whether `probs[:] = 1.0` wrote into the caller's Series
safe_choice(probs, stay, max_stay) ==
  LET cut == IF stay >= max_stay
             THEN [probs EXCEPT ![series_idxmax(probs)] = 0] ELSE probs
      total == SumSeq(cut)
  IN [weights |-> IF total = 0 THEN [j \in 1 .. Len(probs) |-> 1] ELSE cut,
      inplace |-> total = 0 /\ stay < max_stay]

\* mat.sum(axis=0)
ColSums(m) ==
  [j \in 1 .. Size(m) |-> SumSeq([i \in 1 .. Size(m) |-> m.w[i][j]])]

InIndex(m, c) == \E i \in 1 .. Size(m) : m.labels[i] = c

\* next_chord, lines 70-80: the Series handed to safe_choice
next_probs(c, mat) == IF InIndex(mat, c) THEN Row(mat, c) ELSE ColSums(mat)

\* mat after safe_choice returned: a row Series of a DataFrame of one dtype
\* is a view of the frame unless pandas runs with copy-on-write
MatAfter(c, mat, inplace) ==
  IF inplace /\ InIndex(mat, c)
  THEN {mat, [mat EXCEPT !.w[IndexOf(mat, c)] = [j \in 1 .. Size(mat) |-> 1]]}
  ELSE {mat}

\* generate_progression, lines 90-95: mode by the numbers of rows
V2ChooseMode(r) ==
  /\ Runnable(r)
  /\ impl = "ver2"
  /\ pc[r] = "choose_mode"
  /\ LET major == get_matrix(args.quadrant, "major")
         minor == get_matrix(args.quadrant, "minor")
     IN IF ~major.exists \/ ~minor.exists
        THEN /\ Raise(r, "FileNotFoundError")
             /\ UNCHANGED <<mode, rnd, tape>>
        ELSE \E u \in Draws("random", rnd[procOf[r]]) :
               /\ UseRandom(r, u, TRUE)
               /\ mode' = [mode EXCEPT ![r] =
                    <<"major", "minor">>[Pick(<<Size(major), Size(minor)>>, u)]]
               /\ pc' = [pc EXCEPT ![r] = "start"]
               /\ UNCHANGED err
  /\ UNCHANGED <<artifacts, procpc, nprnd, matrix, rng, cur, stay_cnt,
                 prog, ret>>

\* generate_progression, lines 97-103
V2Start(r) ==
  /\ Runnable(r)
  /\ impl = "ver2"
  /\ pc[r] = "start"
  /\ LET start_mat == get_matrix(args.quadrant, mode[r])
     IN \E u \in Draws("random", rnd[procOf[r]]) :
          LET c == start_mat.labels[Pick([i \in 1 .. Size(start_mat) |-> 1], u)]
          IN /\ UseRandom(r, u, TRUE)
             /\ matrix' = [matrix EXCEPT ![r] = start_mat]
             /\ cur' = [cur EXCEPT ![r] = c]
             /\ prog' = [prog EXCEPT ![r] = <<c>>]
  /\ stay_cnt' = [stay_cnt EXCEPT ![r] = 0]
  /\ pc' = [pc EXCEPT ![r] = "v2loop"]
  /\ UNCHANGED <<artifacts, procpc, nprnd, err, mode, rng, ret>>

\* generate_progression, lines 104-111: one iteration of the loop over the
\* beats, or the return
V2Step(r) ==
  /\ Runnable(r)
  /\ pc[r] = "v2loop"
  /\ IF Len(prog[r]) < args.bars * BeatsPerBarV2
     THEN LET beat == Len(prog[r]) % BeatsPerBarV2
              mat == get_beat_matrix(mode[r], beat)
          IN IF ~mat.exists
             THEN /\ Raise(r, "FileNotFoundError")
                  /\ UNCHANGED <<matrix, cur, stay_cnt, prog, rnd, tape, ret>>
             ELSE \E u \in Draws("random", rnd[procOf[r]]) :
                    LET res == safe_choice(next_probs(cur[r], mat), stay_cnt[r],
                                           SafeMaxStay)
                        nxt == mat.labels[Pick(res.weights, u)]
                    IN /\ UseRandom(r, u, TRUE)
                       /\ matrix' \in {[matrix EXCEPT ![r] = m] :
                                         m \in MatAfter(cur[r], mat, res.inplace)}
                       /\ prog' = [prog EXCEPT ![r] = Append(@, nxt)]
                       /\ stay_cnt' = [stay_cnt EXCEPT ![r] =
                                         IF nxt = cur[r] THEN @ + 1 ELSE 1]
                       /\ cur' = [cur EXCEPT ![r] = nxt]
                       /\ UNCHANGED <<pc, err, ret>>
     ELSE /\ pc' = [pc EXCEPT ![r] = "done"]
          /\ ret' = [ret EXCEPT ![r] = prog[r]]
          /\ UNCHANGED <<matrix, cur, stay_cnt, prog, rnd, tape, err>>
  /\ UNCHANGED <<artifacts, procpc, nprnd, mode, rng>>

NextV2 ==
  \/ \E p \in Procs : SetSeed(p)
  \/ \E r \in Reqs : V2ChooseMode(r)
  \/ \E r \in Reqs : V2Start(r)
  \/ \E r \in Reqs : V2Step(r)

\* the matrices of the two directories: cells 0 .. MaxWeight
BarsV2 == 2
MaxWeight == 2
MatsV2(labels) ==
  {[exists |-> TRUE, labels |-> labels, w |-> f] :
     f \in [1 .. Len(labels) -> [1 .. Len(labels) -> 0 .. MaxWeight]]}

\* one run of ver2/generator.py: one matrix in every file of MODE_DIR and of
\* the even beats; the files of the odd beats hold the same matrix, a matrix
\* over one chord, or are missing
InitV2 ==
  /\ impl = "ver2"
  /\ args \in {a \in ArgsOf("ver2", {NoSeed}) :
                 a.quadrant = "Q1" /\ a.bars <= BarsV2}
  /\ stats = [q \in Quadrants |-> [k \in {"major_ratio"} |-> <<1, 2>>]]
  /\ STAY_HIST = NoHist
  /\ Started({1})
  /\ corpus = <<>>
  /\ cfg = [tau |-> <<0, 1>>, cap |-> <<2, 5>>, ignorecase |-> TRUE]
  /\ \E labels \in {<<"C">>, <<"C", "G">>} :
       \E m \in MatsV2(labels) :
         \E odd \in {m, Const(<<"C">>, 1), NoFile} :
           /\ files = [g \in Groups |-> m]
           /\ disk = (BEAT_DIR :> [mb \in Modes \X Beats |->
                                     IF mb[2] % 2 = 1 THEN odd ELSE m])

SpecV2 == InitV2 /\ [][NextV2]_vars

\* ============================================== generator.py, in float64
\* _apply_temperature on a row of doubles.  A cell is 0 or a power of two
\* 2^e, so that x ** (1 / T) is the power of two 2^(e / T) when it is in the
\* range of a double, 0.0 below the smallest subnormal and inf above the
\* largest exponent; NaN is the fraction 0 / 0
MinExp == 0 - 1074
MaxExp == 1024 - 1
NaN == <<0, 0>>
IsNaN(x) == x[2] = 0

FloatZero == [kind |-> "zero", e |-> 0]
FloatInf == [kind |-> "inf", e |-> 0]
Pow2(e) == [kind |-> "pow2", e |-> e]

\* the value of a finite cell as a fraction
ValueOf(x) ==
  IF x.kind = "zero" THEN Zero
  ELSE IF x.e >= 0 THEN <<Pow(2, x.e), 1>> ELSE <<1, Pow(2, 0 - x.e)>>

\* x ** (1.0 / temperature), line 105
float_power(x, temperature) ==
  IF x.kind # "pow2" THEN x
  ELSE LET e == (x.e * temperature.den) \div temperature.num
       IN IF e < MinExp THEN FloatZero
          ELSE IF e > MaxExp THEN FloatInf
          ELSE Pow2(e)

\* scaled / scaled.sum(), line 106: x / inf = 0, inf / inf = 0 / 0 = NaN
float_normalise(scaled) ==
  LET J == 1 .. Len(scaled)
      finite == {j \in J : scaled[j].kind = "pow2"}
      lo == IF finite = {} THEN 0
            ELSE CHOOSE e \in {scaled[j].e : j \in finite} :
                   \A j \in finite : e <= scaled[j].e
      n(j) == IF j \in finite THEN Pow(2, scaled[j].e - lo) ELSE 0
      total == SumSeq([j \in J |-> n(j)])
  IN [j \in J |->
        IF \E i \in J : scaled[i].kind = "inf"
        THEN IF scaled[j].kind = "inf" THEN NaN ELSE Zero
        ELSE IF finite = {} THEN NaN
        ELSE Frac(n(j), total)]

\* _apply_temperature, lines 93-106
apply_temperature_float(probs, temperature) ==
  IF temperature.num <= 0
  THEN [raise |-> "ValueError", row |-> <<>>]
  ELSE IF \A j \in 1 .. Len(probs) : probs[j].kind = "zero"
       THEN [raise |-> NoError, row |-> [j \in 1 .. Len(probs) |-> Zero]]
       ELSE [raise |-> NoError,
             row |-> float_normalise([j \in 1 .. Len(probs) |->
                                        float_power(probs[j], temperature)])]

\* the rows: probabilities 1/4, 1/2, 1 and the count 2; the temperatures of
\* the generator and a cold one
MaxRow == 3
ColdDen == 2000
FloatCells == {FloatZero, Pow2(0 - 2), Pow2(0 - 1), Pow2(0), Pow2(1)}
FloatRows == UNION {[1 .. n -> FloatCells] : n \in 1 .. MaxRow}
TemperaturesFloat == Temperatures \cup {[num |-> 1, den |-> ColdDen]}

\* probs = _apply_temperature(probs, temperature), generator.py line 137
ApplyTemperature ==
  /\ Wrote("probs")
  /\ ~Wrote("scaled")
  /\ Write("scaled", apply_temperature_float(disk["probs"], args.temperature))
  /\ UNCHANGED <<Generating, corpus, cfg>>

NextTemp == ApplyTemperature

InitTemp ==
  /\ impl = "gen"
  /\ args \in [quadrant : {"Q1"}, bars : {1}, max_stay : {1},
               temperature : TemperaturesFloat, seed : {NoSeed}]
  /\ files = [g \in Groups |-> NoFile]
  /\ stats = [q \in Quadrants |-> [k \in {"major_ratio"} |-> <<1, 2>>]]
  /\ STAY_HIST = NoHist
  /\ Started({})
  /\ corpus = <<>>
  /\ cfg = [tau |-> <<0, 1>>, cap |-> <<2, 5>>, ignorecase |-> TRUE]
  /\ \E row \in FloatRows : disk = ("probs" :> row)

SpecTemp == InitTemp /\ [][NextTemp]_vars

\* ------------------------------------------- generator_semi.py, longer runs
SemiBars == 6

NextSemi ==
  \/ \E r \in Reqs : SemiChooseMode(r)
  \/ \E r \in Reqs : Load(r)
  \/ \E r \in Reqs : SemiStart(r)
  \/ \E r \in Reqs : SemiStep(r)

\* one run of generator_semi.py on one matrix over one or two chords
InitSemi ==
  /\ impl = "semi"
  /\ args \in [quadrant : {"Q1"}, bars : 0 .. SemiBars, max_stay : {1},
               temperature : {[num |-> 1, den |-> 1]}, seed : {NoSeed}]
  /\ \E labels \in {<<"C">>, <<"C", "G">>} :
       \E m \in Mats(labels) : files = [g \in Groups |-> m]
  /\ stats = [q \in Quadrants |-> [k \in {"major_ratio"} |-> <<1, 2>>]]
  /\ STAY_HIST = NoHist
  /\ Started({1})
  /\ NoBuild

SpecSemi == InitSemi /\ [][NextSemi]_vars

\* ---------------------------------------------------------------- properties
Returned(r) == pc[r] = "done"

\* the length of the longest run of equal consecutive symbols
LongestRun(s) ==
  IF s = <<>> THEN 0
  ELSE CHOOSE n \in 1 .. Len(s) :
         /\ \E i \in 1 .. Len(s) : RunAt(s, i) = n
         /\ \A i \in 1 .. Len(s) : RunAt(s, i) <= n

OffDiagonalMass(m, c) ==
  \E j \in 1 .. Size(m) : j # IndexOf(m, c) /\ Row(m, c)[j] > 0

HasData(q, md) == files[<<q, md>>].exists /\ Total(files[<<q, md>>]) > 0

\* C1: for a requested length n >= 1 every generation function that returns,
\* returns a sequence of exactly n chord tokens (generator.py, ver1 and
\* generator_semi.py alike), whatever the draws, the stay lengths, max_stay
\* and the temperature.
C1_ExactLength ==
  \A r \in Reqs :
    (Returned(r) /\ args.bars >= 1) => Len(ret[r]) = args.bars

\* generator.py returns MaxBars chords, not all of them equal
C1_Witness ==
  /\ Returned(1)
  /\ args.bars = MaxBars
  /\ Len(ret[1]) = MaxBars
  /\ ret[1][1] # ret[1][MaxBars]
  /\ impl = "gen"

\* C2: the sequence returned by generate_progression of generator.py never
\* contains an invalid token, even when the labels of the matrix contain one.
C2_NoInvalidToken ==
  \A r \in Reqs :
    (impl = "gen" /\ Returned(r)) =>
      \A i \in 1 .. Len(ret[r]) : ret[r][i] \notin InvalidTokens

\* C3: a TRANSITION step of generate_progression of generator.py never chooses
\* the symbol whose stay block was just emitted, for every row that has some
\* off-diagonal mass.
C3_TransitionChangesSymbol ==
  [][\A r \in Reqs :
       (/\ impl = "gen"
        /\ pc[r] = "next"
        /\ pc'[r] = "stay"
        /\ OffDiagonalMass(matrix[r], cur[r])) => cur'[r] # cur[r]]_vars

\* C4: in the output of generate_progression of generator.py no chord occupies
\* more than max_stay consecutive positions (stated here for the matrices in
\* which every row has off-diagonal mass, where a generator can achieve it).
C4_RunAtMostMaxStay ==
  \A r \in Reqs :
    (/\ impl = "gen"
     /\ Returned(r)
     /\ \A i \in 1 .. Size(matrix[r]) :
          OffDiagonalMass(matrix[r], matrix[r].labels[i])) =>
      LongestRun(ret[r]) <= args.max_stay

\* C5: two runs of one program from the same seed, on the same artifacts and
\* with the same command line, end the same way, with the same mode and the
\* same chord sequence.
C5_Deterministic ==
  (args.seed # NoSeed /\ Ended(1) /\ Ended(3)) =>
    /\ pc[1] = pc[3]
    /\ err[1] = err[3]
    /\ mode[1] = mode[3]
    /\ ret[1] = ret[3]

\* two seeded runs of generator.py have returned two different chords each
C5_Witness ==
  /\ args.seed # NoSeed
  /\ impl = "gen"
  /\ Returned(1) /\ Returned(3)
  /\ Len(ret[3]) = RunBars
  /\ ret[3][1] # ret[3][RunBars]

\* C6: a request interleaved with another request of the same process returns
\* what the same request returns alone in a process seeded the same.
C6_InterleavedAsAlone ==
  \A r \in {1, 2} :
    (args.seed # NoSeed /\ Returned(r) /\ Returned(3)) =>
      mode[r] = mode[3] /\ ret[r] = ret[3]

\* C7: with a temperature <= 0 and bars >= 1 generate_progression of
\* generator.py ends in an error, and no symbol is sampled or emitted before
\* the error is raised.
C7_TemperatureRejectedFirst ==
  \A r \in Reqs :
    (impl = "gen" /\ args.temperature.num <= 0 /\ args.bars >= 1) =>
      /\ ~Returned(r)
      /\ pc[r] = "error" => cur[r] = NoChord /\ prog[r] = <<>>

\* C8: a requested length <= 0 is a usage error: no generation call returns
\* (neither an empty sequence nor one of another length).
C8_NonPositiveLengthRejected ==
  \A r \in Reqs :
    (impl \in {"gen", "ver1"} /\ args.bars <= 0) => ~Returned(r)

\* C9: a request that is past loading uses the matrix file of the requested
\* quadrant and of its chosen mode; when that file does not exist the request
\* never gets past loading, and once loading was tried it has ended with
\* FileNotFoundError.
C9_RequestedMatrixOrError ==
  \A r \in active :
    mode[r] # NoMode =>
      LET f == files[<<args.quadrant, mode[r]>>]
      IN /\ pc[r] \notin {"choose_mode", "load", "error"} =>
              f.exists /\ matrix[r] = f
         /\ ~f.exists => /\ pc[r] \in {"load", "error"}
                         /\ pc[r] = "error" => err[r] = "FileNotFoundError"

\* generator_semi.py chose a mode whose matrix was not built: FileNotFoundError
C9_Witness ==
  /\ impl = "semi"
  /\ mode[1] # NoMode
  /\ ~files[<<args.quadrant, mode[1]>>].exists
  /\ pc[1] = "error"
  /\ err[1] = "FileNotFoundError"

\* C10: when exactly one of the two modes of the quadrant has data (the other
\* has no matrix or zero weight), mode selection of generator.py succeeds and
\* returns the mode that has data.
C10_SingleModeChosen ==
  \A r \in active :
    \A md \in Modes :
      (/\ impl \in {"gen", "ver1"}
       /\ HasData(args.quadrant, md)
       /\ \A o \in Modes \ {md} : ~HasData(args.quadrant, o)
       /\ pc[r] # "choose_mode") => mode[r] = md

\* a pair of mode probabilities: both in [0, 1], together 1
ModePair(major, minor) ==
  /\ FLe(Zero, major) /\ FLe(major, One)
  /\ FLe(Zero, minor) /\ FLe(minor, One)
  /\ FEq(FAdd(major, minor), One)

\* C11: the mode_stats.json that build_semi.py writes holds, for each of Q1..Q4
\* (a quadrant without any input matrix included), a pair major, minor of
\* values in [0, 1] that sum to 1; and whenever load_mode_probabilities
\* returns, it returns such a pair.
C11_ModeStatsSumToOne ==
  /\ (Wrote("matrices") /\ disk["matrices"].written) =>
       \A q \in StatQuadrants :
         ModePair(disk["matrices"].stats[q].major, disk["matrices"].stats[q].minor)
  /\ (Wrote("mode_probabilities") /\ disk["mode_probabilities"].raise = NoError) =>
       ModePair(disk["mode_probabilities"].major, disk["mode_probabilities"].minor)

\* mode_stats.json was written from a corpus that has a major and a minor item
\* of Q1 and nothing at all of Q3, and load_mode_probabilities returned for Q1
C11_Witness ==
  /\ Wrote("matrices") /\ disk["matrices"].written
  /\ {<<"Q1", "major">>, <<"Q1", "minor">>} \subseteq DOMAIN disk["csv"].files
  /\ \A md \in Modes : <<"Q3", md>> \notin DOMAIN disk["csv"].files
  /\ disk["matrices"].stats["Q3"].major = Half
  /\ Wrote("mode_probabilities")
  /\ disk["mode_probabilities"].raise = NoError
  /\ disk["mode_probabilities"].quadrant = "Q1"
  /\ FLt(Zero, disk["mode_probabilities"].major)
  /\ FLt(Zero, disk["mode_probabilities"].minor)

\* the transition matrices on disk: the csv of build_matrices, the .prob.csv of
\* save_matrices and of smooth_markov_matrices.py, the tables of build_semi.py
\* and the arrays of normalize_markov_matrices.py and convert_csv_to_npy.py
BuiltMatrices ==
  (IF ~Wrote("csv") THEN {}
   ELSE IF "prob" \in DOMAIN disk["csv"] THEN Range(disk["csv"].prob)
   ELSE Range(disk["csv"].files))
  \cup (IF Wrote("matrices") THEN Range(disk["matrices"].files) ELSE {})
  \cup (IF Wrote("normalized_matrices") THEN Range(disk["normalized_matrices"])
        ELSE {})
  \cup (IF Wrote("prob_csv") THEN Range(disk["prob_csv"]) ELSE {})
  \cup (IF Wrote("npy") THEN Range(disk["npy"].files) ELSE {})

\* C12: every row of every built transition matrix sums to 1 (a row without
\* any count is the uniform distribution, never all-zero).
C12_RowsSumToOne ==
  \A df \in BuiltMatrices :
    \A i \in 1 .. Len(df.index) : FEq(FSum(df.cell[i]), One)

\* P is C smoothed by tau and row-normalised: in every cell
\* P[i][j] * sum_k (C[i][k] + tau) = C[i][j] + tau, and P[i][j] > 0 if tau > 0
SmoothedBy(P, C, tau) ==
  /\ P.index = C.index /\ P.columns = C.columns
  /\ \A i \in 1 .. Len(C.index) : \A j \in 1 .. Len(C.columns) :
       /\ FEq(FMul(P.cell[i][j],
                   FAdd(FSum(C.cell[i]), FMul(<<Len(C.columns), 1>>, tau))),
              FAdd(C.cell[i][j], tau))
       /\ FEq(tau, Zero) =>
            FEq(FMul(P.cell[i][j], FSum(C.cell[i])), C.cell[i][j])
       /\ FLt(Zero, tau) => FLt(Zero, P.cell[i][j])

\* C13: every table that build_semi.py writes is smooth_and_normalise(counts,
\* tau) with P[i][j] = (C[i][j] + tau) / sum_k (C[i][k] + tau), which is the
\* relative frequency of the row for tau = 0 and strictly positive in every
\* cell for tau > 0; normalize_and_save writes the same with tau = 1.
C13_AdditiveSmoothing ==
  /\ (Wrote("matrices") /\ disk["matrices"].written) =>
       \A g \in DOMAIN disk["csv"].files :
         SmoothedBy(disk["matrices"].files[g], disk["csv"].files[g], cfg.tau)
  /\ Wrote("normalized_matrices") =>
       \A g \in DOMAIN disk["csv"].files :
         SmoothedBy(disk["normalized_matrices"][g], disk["csv"].files[g], One)

\* build_semi.py has smoothed, with tau > 0, a count matrix that has a row with
\* a count of 0 next to a count of MaxCount
C13_Witness ==
  /\ Wrote("matrices") /\ disk["matrices"].written
  /\ FLt(Zero, cfg.tau)
  /\ \E g \in DOMAIN disk["csv"].files :
       LET C == disk["csv"].files[g]
           P == disk["matrices"].files[g]
       IN \E i \in 1 .. Len(C.index) : \E j, k \in 1 .. Len(C.columns) :
            /\ C.cell[i][j] = Zero /\ C.cell[i][k] = <<MaxCount, 1>>
            /\ FLt(Zero, P.cell[i][j]) /\ FLt(P.cell[i][j], P.cell[i][k])

\* row i of Q is row i of P with the self-transition clipped at cap: with
\* p[j] = P[i][j] / sum(P[i]), a diagonal p[i] > cap becomes cap and every other
\* cell gains (p[i] - cap) / (n - 1); a diagonal p[i] <= cap leaves the row p
ClippedRow(Q, P, i, cap) ==
  LET n == Len(P.columns)
      p(j) == FDiv(P.cell[i][j], FSum(P.cell[i]))
      share == FDiv(FSub(p(i), cap), <<n - 1, 1>>)
  IN /\ FEq(FSum(Q.cell[i]), One)
     /\ \A j \in 1 .. n :
          FEq(Q.cell[i][j],
              IF FLt(cap, p(i))
              THEN IF j = i THEN cap ELSE FAdd(p(j), share)
              ELSE p(j))

\* C14: smooth_markov_matrices.py clips the self-transition of every row of a
\* square matrix (of two states or more, the row not all-zero) at the cap: the
\* excess of the diagonal over the cap goes in equal shares to the
\* off-diagonal cells, a row at or under the cap keeps its distribution, and
\* every row sums to 1.
C14_SelfTransitionClip ==
  Wrote("prob_csv") =>
    \A g \in DOMAIN disk["csv"].files :
      LET P == reindex(disk["csv"].files[g])
          Q == disk["prob_csv"][g]
      IN \A i \in 1 .. Len(P.index) :
           (Len(P.index) >= 2 /\ FLt(Zero, FSum(P.cell[i]))) =>
             ClippedRow(Q, P, i, cfg.cap)

NoTable(chord) == chord \notin DOMAIN STAY_HIST \/ STAY_HIST[chord] = EmptyTable

\* C15: for every chord, every max_stay >= 1 and every draw, sample_stay
\* returns an integer in [1, max_stay], and 1 when the chord has no (or an
\* empty) table in STAY_HIST; so every stay block that generate_progression
\* emits has 1 to max_stay symbols, and one symbol for a chord without table.
C15_StayWithinBounds ==
  /\ [](\A chord \in ValidChords \cup InvalidTokens :
         \A max_stay \in 1 .. MaxStay : \A u \in Uniforms :
           /\ sample_stay(chord, max_stay, u).stay \in 1 .. max_stay
           /\ NoTable(chord) => sample_stay(chord, max_stay, u).stay = 1)
  /\ [][\A r \in Reqs :
          (pc[r] = "stay" /\ pc'[r] # "stay") =>
            /\ Len(prog'[r]) - Len(prog[r]) \in 1 .. args.max_stay
            /\ NoTable(cur[r]) => Len(prog'[r]) = Len(prog[r]) + 1]_vars

\* every chord has a stay table, and the one stay block emitted so far was
\* clamped to max_stay symbols with more bars still to come
C15_Witness ==
  /\ impl = "gen"
  /\ \A chord \in ValidChords : ~NoTable(chord)
  /\ args.max_stay = MaxStay /\ args.bars > MaxStay
  /\ pc[1] = "next"
  /\ cur[1] \in ValidChords
  /\ nprnd[1].pos = 1
  /\ Len(prog[1]) = MaxStay

\* the weights ws over the labels of m are those of a uniform draw from the
\* valid labels
UniformOverValid(ws, m) ==
  \A i \in 1 .. Size(m) :
    IF m.labels[i] \in InvalidTokens THEN ws[i] = 0
    ELSE ws[i] > 0 /\ \A j \in 1 .. Size(m) :
                        m.labels[j] \notin InvalidTokens => ws[j] = ws[i]

\* C16: a row of zero total mass never ends the generation with an error: the
\* next symbol is then drawn uniformly from the valid states of the alphabet
\* (generator.py, temperature > 0: the step goes on to the next stay block
\* with a valid symbol; generator_semi.py: the weights of the draw are uniform
\* over the valid labels).
C16_ZeroRowUniformFallback ==
  [][\A r \in Reqs :
       /\ (/\ impl = "gen" /\ pc[r] = "next"
           /\ args.temperature.num > 0
           /\ SumSeq(Row(matrix[r], cur[r])) = 0) =>
             pc'[r] = "stay" /\ cur'[r] \notin InvalidTokens
       /\ (/\ impl = "semi" /\ pc[r] = "semiloop"
           /\ Len(prog[r]) < args.bars
           /\ SumSeq(Row(matrix[r], cur[r])) = 0) =>
             /\ pc'[r] = "semiloop"
             /\ UniformOverValid(
                  next_chord_weights(cur[r], stay_cnt[r], matrix[r]), matrix[r])]_vars

\* C17: every call of generate_progression of generator.py ends (it returns,
\* or raises): every iteration of its loop samples one stay length and emits at
\* least one symbol without exceeding the requested length, and samples at most
\* one transition, and only while symbols are still missing; nothing is retried.
C17_BoundedSampling ==
  /\ [][\A r \in Reqs :
          /\ (pc[r] = "stay" /\ pc'[r] # "stay") =>
                /\ Len(prog[r]) < Len(prog'[r])
                /\ Len(prog'[r]) <= args.bars
                /\ pc'[r] \in {"next", "done"}
          /\ (pc[r] = "next" /\ pc'[r] # "next") =>
                /\ Len(prog[r]) >= 1 /\ Len(prog[r]) < args.bars
                /\ prog'[r] = prog[r]
                /\ pc'[r] \in {"stay", "error"}]_vars
  /\ <>Ended(1)

\* generator.py has returned MaxBars symbols of a matrix of two chords after a
\* transition was sampled
C17_Witness ==
  /\ impl = "gen"
  /\ Returned(1)
  /\ args.bars = MaxBars
  /\ Len(ret[1]) = MaxBars
  /\ Size(matrix[1]) = 2
  /\ ret[1][1] # ret[1][2]

\* C18: every matrix that a builder writes is square, its rows and its columns
\* labelled by the same chords in the same order, so that every chord that can
\* be sampled as next chord (a column) has a row.
C18_SquareSameLabels ==
  Wrote("csv") =>
    \A g \in DOMAIN disk["csv"].files :
      /\ disk["csv"].files[g].index = disk["csv"].files[g].columns
      /\ \A c \in Range(disk["csv"].files[g].columns) :
           c \in Range(disk["csv"].files[g].index)

\* C19: no invalid token (None or "None_None") is a row label or a column
\* label of a matrix that a builder writes, whatever chord events the corpus
\* items contain.
C19_NoInvalidLabel ==
  Wrote("csv") =>
    \A g \in DOMAIN disk["csv"].files :
      \A c \in Range(disk["csv"].files[g].index)
                \cup Range(disk["csv"].files[g].columns) :
        ~Invalid(c)

\* C20: in the stay histograms that build_histograms writes, the probabilities
\* of every chord sum to 1, every run length is an integer >= 1, every listed
\* probability is > 0, and no invalid token (None, "None_None") is a key.
C20_StayHistograms ==
  (Wrote("stay_histograms") /\ disk["stay_histograms"].written) =>
    \A chord \in DOMAIN disk["stay_histograms"].result :
      LET dist == disk["stay_histograms"].result[chord]
      IN /\ ~Invalid(chord)
         /\ Len(dist) >= 1
         /\ \A n \in 1 .. Len(dist) :
              /\ dist[n].len \in Nat
              /\ dist[n].len >= 1
              /\ FLt(Zero, dist[n].p)
         /\ FEq(FSum([n \in 1 .. Len(dist) |-> dist[n].p]), One)

\* a corpus with an invalid chord event, whose histograms were written and
\* hold a run of two bars or more and a chord with two run lengths
C20_Witness ==
  /\ Wrote("stay_histograms")
  /\ disk["stay_histograms"].written
  /\ \E k \in 1 .. Len(corpus) : \E i \in 1 .. Len(corpus[k].events) :
       /\ corpus[k].events[i].name = "Chord"
       /\ Invalid(corpus[k].events[i].value)
  /\ \E chord \in DOMAIN disk["stay_histograms"].result :
       \E n \in 1 .. Len(disk["stay_histograms"].result[chord]) :
         disk["stay_histograms"].result[chord][n].len >= 2
  /\ \E chord \in DOMAIN disk["stay_histograms"].result :
       Len(disk["stay_histograms"].result[chord]) >= 2

\* the maximal runs of seq: the lengths of the runs, in order, that end where
\* the next element differs or the sequence ends
MaximalRuns(seq) ==
  LET ends == SelectSeq([i \in 1 .. Len(seq) |-> i],
                        LAMBDA i : EndsRun(seq, i))
  IN [n \in 1 .. Len(ends) |-> [chord |-> seq[ends[n]], len |-> RunAt(seq, ends[n])]]

\* C21: run-length extraction splits a sequence into its maximal runs of equal
\* consecutive symbols: every run length is >= 1, the lengths sum to the length
\* of the sequence, neighbouring runs have different symbols, a sequence of a
\* single symbol yields exactly one run and an empty sequence none; both for
\* extract_stay_lengths and for the runs build_histograms counts.
C21_MaximalRuns ==
  \A k \in 1 .. Len(corpus) :
    LET seq == extract_chords(corpus[k].events)
        bar_chords == extract_bar_chords(corpus[k].events)
        runs == file_runs(bar_chords)
        expected == MaximalRuns(seq)
    IN /\ Wrote("stay_lengths") =>
            LET lengths == disk["stay_lengths"][k]
            IN /\ lengths = [n \in 1 .. Len(expected) |-> expected[n].len]
               /\ \A n \in 1 .. Len(lengths) : lengths[n] >= 1
               /\ SumSeq(lengths) = Len(seq)
               /\ \A n \in 1 .. (Len(lengths) - 1) :
                    seq[Cum(lengths, n)] # seq[Cum(lengths, n) + 1]
               /\ (seq # <<>> /\ \A i \in 1 .. Len(seq) : seq[i] = seq[1])
                    => lengths = <<Len(seq)>>
               /\ seq = <<>> => lengths = <<>>
       /\ Wrote("stay_histograms") =>
            /\ runs = MaximalRuns(bar_chords)
            /\ \A n \in 1 .. Len(runs) : runs[n].len >= 1
            /\ SumSeq([n \in 1 .. Len(runs) |-> runs[n].len]) = Len(bar_chords)
            /\ \A n \in 1 .. (Len(runs) - 1) : runs[n].chord # runs[n + 1].chord
            /\ disk["stay_histograms"].written = (bar_chords # <<>>)

\* the example C, C, Dm, Dm, Dm, G gave 2, 3, 1
C21_Witness ==
  /\ Wrote("stay_lengths")
  /\ Wrote("stay_histograms")
  /\ extract_chords(corpus[1].events) = <<"C", "C", "Dm", "Dm", "Dm", "G">>
  /\ disk["stay_lengths"][1] = <<2, 3, 1>>
  /\ disk["stay_histograms"].result["Dm"] = <<[len |-> 3, p |-> One]>>

\* the file the DataFrame of request r was read from
ReadFrom(r) ==
  IF impl = "ver2" /\ Len(prog[r]) > 1
  THEN get_beat_matrix(mode[r], (Len(prog[r]) - 1) % BeatsPerBarV2)
  ELSE files[<<args.quadrant, mode[r]>>]

\* C22: generation leaves the built artifacts unchanged: at every point of a
\* generation call, and after it returned, every cell of the transition matrix
\* the call works on has the value it was read with, also when the call took
\* the zero-row fallback or the self-transition suppression.
C22_MatrixUnchanged ==
  \A r \in active : matrix[r].exists => matrix[r] = ReadFrom(r)

\* C23: for every temperature > 0 and every row of positive mass the scaled
\* row is a row of numbers that sums to 1, its zero cells are the zero cells of
\* the row, the order of the cells is preserved, and at temperature 1 a
\* normalised row is returned unchanged.
C23_TemperatureScaling ==
  (/\ Wrote("scaled")
   /\ args.temperature.num > 0
   /\ \E j \in DOMAIN disk["probs"] : disk["probs"][j].kind # "zero") =>
    LET probs == disk["probs"]
        res == disk["scaled"]
        J == DOMAIN probs
    IN /\ res.raise = NoError
       /\ DOMAIN res.row = J
       /\ \A j \in J : ~IsNaN(res.row[j])
       /\ FEq(FSum(res.row), One)
       /\ \A j \in J : FEq(res.row[j], Zero) <=> probs[j].kind = "zero"
       /\ \A i, j \in J :
            FLe(ValueOf(probs[i]), ValueOf(probs[j])) => FLe(res.row[i], res.row[j])
       /\ (/\ args.temperature.num = args.temperature.den
           /\ FEq(FSum([j \in J |-> ValueOf(probs[j])]), One))
            => \A j \in J : FEq(res.row[j], ValueOf(probs[j]))

\* C24: in generate_progression of generator.py stay samples and transition
\* samples strictly alternate, starting with a stay sample for the start
\* chord; a transition is sampled only after the stay block of the current
\* chord was emitted and while fewer than `bars` symbols are emitted, and no
\* sample of either kind is drawn once the buffer holds `bars` symbols.
C24_StayThenTransition ==
  [][\A r \in Reqs :
       (impl = "gen" /\ pc'[r] # pc[r]) =>
         /\ pc[r] = "start" => pc'[r] = IF args.bars > 0 THEN "stay" ELSE "done"
         /\ pc[r] = "stay" =>
              /\ Len(prog[r]) < args.bars
              /\ pc'[r] = IF Len(prog'[r]) < args.bars THEN "next" ELSE "done"
         /\ pc[r] = "next" =>
              /\ Len(prog[r]) < args.bars
              /\ Len(prog[r]) >= 1
              /\ prog[r][Len(prog[r])] = cur[r]
              /\ prog'[r] = prog[r]
              /\ pc'[r] \in {"stay", "error"}
         /\ pc[r] \in {"done", "error"} => FALSE]_vars

\* a run that sampled a stay of two bars, then a transition to another chord,
\* then a stay again, and returned
C24_Witness ==
  /\ impl = "gen"
  /\ pc[1] = "done"
  /\ args.bars = 3
  /\ ret[1][1] = ret[1][2]
  /\ ret[1][2] # ret[1][3]

\* C25: throughout generate_progression of generator.py the output buffer only
\* grows by appending, and it never holds more than `bars` symbols, so that
\* the slice prog[:bars] that is returned is the whole buffer; the last stay
\* block is cut to the remaining budget.
C25_AppendOnlyWithinBudget ==
  [][\A r \in Reqs :
       impl = "gen" =>
         /\ Len(prog'[r]) >= Len(prog[r])
         /\ SubSeq(prog'[r], 1, Len(prog[r])) = prog[r]
         /\ Len(prog'[r]) <= args.bars
         /\ pc'[r] = "done" => ret'[r] = prog'[r]]_vars

\* a seeded run of one bar whose stay sample for C was two bars: the block
\* that was emitted is one bar long
C25_Witness ==
  /\ impl = "gen"
  /\ args.seed # NoSeed
  /\ args.bars = 1
  /\ pc[1] = "done"
  /\ ret[1] = <<"C">>
  /\ ~NoTable("C")
  /\ tape["numpy"][args.seed] # <<>>
  /\ sample_stay("C", args.max_stay, tape["numpy"][args.seed][1]).stay = 2

\* L_max = max(2, ceil(alpha / (1 - p_ii))) of the row of chord c, p_ii being
\* the share of the diagonal cell in the row
LMax(m, c) ==
  LET row == Row(m, c)
      a == row[IndexOf(m, c)]
      total == SumSeq(row)
  IN Max(2, CeilDiv(AlphaNum * total, AlphaDen * (total - a)))

\* C26: in generator_semi.py, once the current chord has followed itself
\* stay_cnt >= L_max times, next_chord does not return it again if its row has
\* off-diagonal probability, so that such a chord never occupies more than
\* L_max + 1 consecutive positions of the progression.
C26_SelfStayBounded ==
  /\ [](\A r \in Reqs :
         (impl = "semi" /\ matrix[r].exists) =>
           \A i \in 1 .. Len(prog[r]) :
             OffDiagonalMass(matrix[r], prog[r][i]) =>
               RunAt(prog[r], i) <= LMax(matrix[r], prog[r][i]) + 1)
  /\ [][\A r \in Reqs :
         (/\ impl = "semi"
          /\ pc[r] = "semiloop"
          /\ Len(prog'[r]) = Len(prog[r]) + 1
          /\ OffDiagonalMass(matrix[r], cur[r])
          /\ stay_cnt[r] >= LMax(matrix[r], cur[r])) => cur'[r] # cur[r]]_vars

\* C has followed itself L_max = 3 times under the row [1/2, 1/2]; the next
\* chord was G
C26_Witness ==
  /\ impl = "semi"
  /\ matrix[1].exists
  /\ matrix[1].labels = <<"C", "G">>
  /\ Row(matrix[1], "C") = <<1, 1>>
  /\ Len(prog[1]) >= 5
  /\ SubSeq(prog[1], 1, 5) = <<"C", "C", "C", "C", "G">>

\* C27: in ver2/generator.py, when the same chord has continued for max_stay
\* (4) steps, the next chord differs from the current one whenever another
\* chord has nonzero probability, and no chord is emitted more than max_stay
\* times in a row (stated here for the matrices in which every row has
\* off-diagonal mass, where a generator can achieve it).
C27_SafeChoiceBoundsRuns ==
  /\ [][\A r \in Reqs :
         (/\ impl = "ver2"
          /\ pc[r] = "v2loop"
          /\ Len(prog'[r]) = Len(prog[r]) + 1
          /\ stay_cnt[r] >= SafeMaxStay
          /\ LET mat == get_beat_matrix(mode[r], Len(prog[r]) % BeatsPerBarV2)
                 probs == next_probs(cur[r], mat)
             IN \E j \in 1 .. Len(probs) :
                  mat.labels[j] # cur[r] /\ probs[j] > 0) => cur'[r] # cur[r]]_vars
  /\ [](\A r \in Reqs :
         (/\ impl = "ver2"
          /\ mode[r] # NoMode
          /\ \A b \in Beats :
               LET mat == get_beat_matrix(mode[r], b)
               IN /\ mat.exists
                  /\ \A i \in 1 .. Size(mat) :
                       OffDiagonalMass(mat, mat.labels[i]))
           => LongestRun(prog[r]) <= SafeMaxStay)

\* the positions <<k, i>> where prev is immediately followed by nxt inside the
\* item k of group g
PositionsIn(g, prev, nxt) ==
  UNION {{<<k, i>> : i \in {i \in 1 .. Len(corpus[k].events) :
                             LET chords == extract_chords(corpus[k].events)
                             IN /\ <<corpus[k].quadrant, key_mode(corpus[k])>> = g
                                /\ i < Len(chords)
                                /\ chords[i] = prev
                                /\ chords[i + 1] = nxt}} :
         k \in 1 .. Len(corpus)}

\* the runs <<k, n>> of chord c, L bars long, closed inside the item k
RunsIn(c, L) ==
  UNION {{<<k, n>> : n \in {n \in 1 .. Len(MaximalRuns(extract_bar_chords(corpus[k].events))) :
                             MaximalRuns(extract_bar_chords(corpus[k].events))[n]
                               = [chord |-> c, len |-> L]}} :
         k \in 1 .. Len(corpus)}

\* C28: observations never span two items of the corpus: the files written by
\* build_matrices are those of the groups that hold a pair inside one item,
\* and the cell (a, b) of a group is the number of positions where a is
\* immediately followed by b inside one item of the group, over the number of
\* such positions of a (the last chord of an item and the first of the next
\* are no pair, an item with fewer than two chords adds none); the share of
\* the length L in the stay histogram of a chord is the number of its runs of
\* L bars that are closed inside one item, over the number of its runs.
C28_NoSpanningObservation ==
  /\ (Wrote("csv") /\ "prob" \notin DOMAIN disk["csv"]
        /\ disk["csv"].raise = NoError) =>
       /\ DOMAIN disk["csv"].files =
            {g \in Groups : \E a \in ChordValues, b \in ChordValues :
                              PositionsIn(g, a, b) # {}}
       /\ \A g \in DOMAIN disk["csv"].files :
            LET df == disk["csv"].files[g]
            IN \A i \in 1 .. Len(df.index), j \in 1 .. Len(df.columns) :
                 LET n == Cardinality(PositionsIn(g, df.index[i], df.columns[j]))
                     tot == Cardinality(UNION {PositionsIn(g, df.index[i], b) :
                                                 b \in ChordValues})
                 IN FEq(df.cell[i][j], <<n, IF tot = 0 THEN 1 ELSE tot>>)
  /\ (Wrote("stay_histograms") /\ disk["stay_histograms"].written) =>
       LET result == disk["stay_histograms"].result
       IN \A c \in ChordValues, L \in 1 .. MaxRun(corpus) :
            LET m == Cardinality(RunsIn(c, L))
                tot == Cardinality(UNION {RunsIn(c, K) : K \in 1 .. MaxRun(corpus)})
            IN IF m = 0
               THEN c \in DOMAIN result =>
                      \A n \in 1 .. Len(result[c]) : result[c][n].len # L
               ELSE /\ c \in DOMAIN result
                    /\ \E n \in 1 .. Len(result[c]) :
                         /\ result[c][n].len = L
                         /\ FEq(result[c][n].p, <<m, tot>>)

\* two items of one group, both counted, whose matrix and histograms were
\* written: the last chord of the first and the first chord of the second form
\* a pair that no item holds, and the last bar of the first and the first bar
\* of the second hold the same chord
C28_Witness ==
  /\ Wrote("csv") /\ "prob" \notin DOMAIN disk["csv"]
  /\ disk["csv"].raise = NoError
  /\ Wrote("stay_histograms") /\ disk["stay_histograms"].written
  /\ Len(corpus) = 2
  /\ corpus[1].quadrant = corpus[2].quadrant
  /\ key_mode(corpus[1]) = key_mode(corpus[2])
  /\ LET g == <<corpus[1].quadrant, key_mode(corpus[1])>>
         one == extract_chords(corpus[1].events)
         two == extract_chords(corpus[2].events)
         bars1 == extract_bar_chords(corpus[1].events)
         bars2 == extract_bar_chords(corpus[2].events)
     IN /\ Len(one) >= 2 /\ Len(two) >= 2
        /\ PositionsIn(g, one[Len(one)], two[1]) = {}
        /\ g \in DOMAIN disk["csv"].files
        /\ bars1 # <<>> /\ bars2 # <<>>
        /\ bars1[Len(bars1)] = bars2[1]
        /\ RunsIn(bars2[1], 1) = {<<1, Len(MaximalRuns(bars1))>>, <<2, 1>>}

\* ------------------------------------------- generator.py --temperature inf
\* argparse reads --temperature with float(): "inf" is a float above 0, and
\* 1.0 / temperature is then 0.0
Infinite == [num |-> 1, den |-> 0]

\* one run of generator.py, the temperature finite or infinite
InitHot ==
  /\ impl = "gen"
  /\ args \in [quadrant : Quadrants, bars : 0 .. MaxBars, max_stay : 1 .. MaxStay,
               temperature : Temperatures \cup {Infinite}, seed : {NoSeed}]
  /\ files \in FilesOf(args.quadrant)
  /\ stats = [q \in Quadrants |-> [k \in {"major_ratio"} |-> <<1, 2>>]]
  /\ STAY_HIST \in StayHists
  /\ Started({1})
  /\ NoBuild

SpecHot == InitHot /\ [][NextGen]_vars

\* C29: in the output of generate_progression of generator.py every adjacent
\* pair (x, y) with x # y is a transition of positive weight in the matrix,
\* unless the row of x has no mass: a cell of weight 0 in a row of positive
\* mass is never taken, whatever the temperature above 0.
C29_OnlyAllowedTransitions ==
  \A r \in Reqs :
    (impl = "gen" /\ pc[r] = "done" /\ err[r] = NoError) =>
      \A i \in 1 .. (Len(ret[r]) - 1) :
        ret[r][i] # ret[r][i + 1] =>
          \/ Row(matrix[r], ret[r][i])[IndexOf(matrix[r], ret[r][i + 1])] > 0
          \/ SumSeq(Row(matrix[r], ret[r][i])) = 0

\* ----------------------------- build_semi.py, then ver2/generator_semi.py
\* python generator_semi.py with the mode_stats.json that build_semi.py wrote
\* as STATS_JSON: json.dump and json.load keep the keys and the values
StartSemi ==
  /\ Wrote("matrices")
  /\ disk["matrices"].written
  /\ active = {}
  /\ stats' = disk["matrices"].stats
  /\ active' = {1}
  /\ pc' = [pc EXCEPT ![1] = "choose_mode"]
  /\ UNCHANGED <<impl, files, STAY_HIST, args, procpc, rnd, nprnd, tape, err,
                 mode, matrix, rng, cur, stay_cnt, prog, ret, corpus, cfg, disk>>

NextPipe ==
  \/ BuildMatrices
  \/ SaveMatrices
  \/ BuildSemi
  \/ StartSemi
  \/ \E r \in Reqs : SemiChooseMode(r)

\* the build from a corpus, generator_semi.py not started yet
InitPipe ==
  /\ impl = "semi"
  /\ args \in [quadrant : Quadrants, bars : {0}, max_stay : {1},
               temperature : {[num |-> 1, den |-> 1]}, seed : {NoSeed}]
  /\ files = [g \in Groups |-> NoFile]
  /\ stats = [q \in Quadrants |-> [k \in {"major_ratio"} |-> <<1, 2>>]]
  /\ STAY_HIST = NoHist
  /\ Started({})
  /\ corpus \in Corpora
  /\ cfg \in {c \in Configs : c.tau = <<2, 5>>}
  /\ disk = <<>>

SpecPipe == InitPipe /\ [][NextPipe]_vars

\* C30: the mode statistics that build_semi.py writes can be consumed by
\* choose_mode of generator_semi.py: every quadrant of the written statistics
\* holds the field choose_mode reads for the probability of major, and mode
\* selection on the freshly built statistics returns "major" or "minor"
\* without an error.
C30_FreshStatsConsumable ==
  /\ (Wrote("matrices") /\ disk["matrices"].written) =>
       \A q \in StatQuadrants :
         "major_ratio" \in DOMAIN disk["matrices"].stats[q]
  /\ \A r \in active :
       (impl = "semi" /\ pc[r] # "choose_mode") =>
         /\ err[r] = NoError
         /\ mode[r] \in Modes

====
